---- MODULE Spec2Model ----
(***************************************************************************)
(* Model of the arenaplus background script: the wallet session, the       *)
(* cached nonce, the transaction executors (tip, tip shower batch,         *)
(* promotion creation, subscription, promotion cancellation), the approval *)
(* contexts and the wallet action queue, against a small ledger.           *)
(*                                                                         *)
(* The script runs on one event loop.  One action of the model is one run  *)
(* of the event loop: a message handler up to its first await, or the      *)
(* continuation of an executor after one awaited call has resolved.        *)
(***************************************************************************)
EXTENDS Integers, Sequences, FiniteSets, TLC

\* ------------------------------------------------------------------ bounds
MaxTasks == 2          \* executor invocations that may be started in one run
MaxActions == 2        \* actions that may be enqueued in one run
MaxContexts == 1       \* distinct context ids callers use
MaxRecipients == 2     \* recipients of one tip shower batch
MaxLedgerNonce == 2    \* mined transactions the ledger may reach
MaxUnlocks == 1        \* UNLOCK_WALLET messages handled in one run
MaxContextRecipients == 1  \* recipients of a batch run under an approval context
MaxNative == 1         \* the largest native balance and subscription fee

Null == -1             \* null, for a variable that holds a number
TaskIds == 1..MaxTasks
ContextIds == 1..MaxContexts
NoContext == 0         \* String(payload.contextId || "") is the empty string

VARIABLES
    isUnlocked,                       \* let isUnlocked
    inMemoryWallet,                   \* let inMemoryWallet: Null or the wallet
    nonce,                            \* let nonce: Null or a number
    createPromotionInFlight,          \* let createPromotionInFlight
    cancelPromotionInFlight,          \* let cancelPromotionInFlight
    engageInPromotionInFlight,        \* let engageInPromotionInFlight
    walletActions,                    \* the action queue, in enqueue order
    pendingTipShowerApprovals,        \* Map contextId -> PendingTipShowerApproval
    pendingCreatePromotionApprovals,  \* Map contextId -> PendingCreatePromotionApproval
    tasks,                            \* the executor invocations and where each is suspended
    unlock,                           \* the UNLOCK_WALLET promise chain in progress
    unlocks,                          \* UNLOCK_WALLET messages handled so far
    sessionStore,                     \* chrome.storage.session: does it hold the wallet
    walletData,                       \* chrome.storage.local: the walletData record, if any
    ledgerLatest,                     \* the account's mined transaction count
    pool,                             \* nonces of the account's transactions pending in the ledger
    broadcasts,                       \* every transaction the script sent, with the ledger's answer
    reply,                            \* the response sent in this step, if any
    progress,                         \* the notifyTipShowerProgress messages sent in this step
    welcome,                          \* the Welcome page's component state
    useWallet                         \* the useWallet hook: its wallet and the ledger calls it made

vars == <<isUnlocked, inMemoryWallet, nonce, createPromotionInFlight,
          cancelPromotionInFlight, engageInPromotionInFlight, walletActions, pendingTipShowerApprovals,
          pendingCreatePromotionApprovals, tasks, unlock, unlocks, sessionStore,
          walletData, ledgerLatest, pool, broadcasts, reply, progress,
          welcome, useWallet>>

\* ------------------------------------------------------------------ senders
\* A chrome.runtime.MessageSender: its extension id and the fields the origin
\* is taken from.  A URL is a sequence of pieces, so that startsWith is a
\* comparison of its first piece; the empty sequence is the absent field.
ExtensionId == "arenaplus"
Senders ==
    { [id |-> ExtensionId, origin |-> <<>>, url |-> <<>>, tabUrl |-> <<>>, documentId |-> <<>>],
      [id |-> "", origin |-> <<"https://arena.social", "/home">>, url |-> <<>>, tabUrl |-> <<>>,
       documentId |-> <<>>],
      [id |-> "", origin |-> <<>>, url |-> <<>>, tabUrl |-> <<"https://x.com", "/status">>,
       documentId |-> <<"D1">>],
      [id |-> "other", origin |-> <<"https://evil.example">>, url |-> <<"https://x.com">>,
       tabUrl |-> <<>>, documentId |-> <<>>],
      [id |-> "", origin |-> <<>>, url |-> <<>>, tabUrl |-> <<>>, documentId |-> <<"D2">>] }

\* A sender that is neither the extension nor a page of an allow-listed origin.
Stranger == [id |-> "other", origin |-> <<"https://evil.example">>, url |-> <<"https://x.com">>,
             tabUrl |-> <<>>, documentId |-> <<>>]

startsWith(s, prefix) == Len(s) >= 1 /\ s[1] = prefix

isTrustedSender(sender) ==
    IF sender.id # "" /\ sender.id = ExtensionId
    THEN TRUE
    ELSE LET origin == IF sender.origin # <<>> THEN sender.origin
                       ELSE IF sender.url # <<>> THEN sender.url
                       ELSE IF sender.tabUrl # <<>> THEN sender.tabUrl
                       ELSE sender.documentId
         IN startsWith(origin, "https://arena.social")
            \/ startsWith(origin, "https://www.x.com")
            \/ startsWith(origin, "https://x.com")

\* ------------------------------------------------------------------ ledger
\* signer.getNonce("latest"): the mined transaction count.
getNonceLatest == ledgerLatest

\* signer.getNonce("pending"): the mined count plus the pending transactions
\* that follow it without a gap.
RECURSIVE PendingFrom(_)
PendingFrom(n) == IF n \in pool THEN PendingFrom(n + 1) ELSE n
getNoncePending == PendingFrom(ledgerLatest)

\* The ledger's answers to a transaction sent with nonce n.  A nonce below the
\* mined count is too low, a nonce already pending is a replacement, anything
\* else is taken into the pool or rejected for a reason that is not the nonce.
LedgerAnswers(n) ==
    IF n < ledgerLatest THEN {"NONCE_EXPIRED"}
    ELSE IF n \in pool THEN {"REPLACEMENT_UNDERPRICED"}
    ELSE {"accepted", "rejected"}

isNonceError(answer) == answer \in {"NONCE_EXPIRED", "REPLACEMENT_UNDERPRICED"}

\* ------------------------------------------------------------------ records
\* An executor invocation.  kind: which executor; origin: the message that
\* started it; action: the queued action whose executor it is (0: none);
\* ctx: the context id the request named (NoContext: none); currentNonce: the
\* nonce the invocation holds; n: the value a resync read returned; left: the
\* recipients of a batch still to tip, the current one included; flow: the
\* queue id of the approved context the handler took the invocation's
\* parameters from (0: none); feeShort: the native balance the executor read
\* is below the value it sends plus the network fee; amount: the amount in
\* the payload executeCreatePromotion was called with, or the amount per
\* tip of a batch started under an approved context; total: the number of
\* recipients of a batch; processed: the batch's count of tips done.
FreeTask == [pc |-> "free", kind |-> "none", origin |-> "none", action |-> 0,
             ctx |-> NoContext, currentNonce |-> 0, answer |-> "",
             n |-> Null, left |-> 0, needApprove |-> FALSE, flow |-> 0,
             feeShort |-> FALSE, amount |-> 0, total |-> 0, processed |-> 0]
DoneTask == [FreeTask EXCEPT !.pc = "done"]

\* An entry of an approval map; amount: the promotion amount recorded with a
\* promotion approval, the amountPerTip recorded with a tip-shower approval
\* (0 in an absent entry).
NoEntry == [present |-> FALSE, approved |-> FALSE, queueId |-> 0, amount |-> 0]
\* The WalletInfo unlockAndInitializeWallet returns and the script caches;
\* the provider, an object of the ledger client, is left out.
PrivateKeys == {"0xKEY", "0xKEY2"}
\* new ethers.Wallet(privateKey).address: the address is a function of the key.
AddressOf(privateKey) == IF privateKey = "0xKEY" THEN "0xA" ELSE "0xB"
WalletOf(privateKey) ==
    [address |-> AddressOf(privateKey), privateKey |-> privateKey, mnemonic |-> ""]
WalletInfo == WalletOf("0xKEY")
\* null, for the cached wallet: no address and no key.
NoWallet == [address |-> "", privateKey |-> "", mnemonic |-> ""]
\* No wallet in a response: wallet null, or no wallet field.
NothingSent == [f \in {} |-> ""]

\* A response: its message type, success and error, and the wallet it carries.
NoReply == [type |-> "none", success |-> FALSE, error |-> "", wallet |-> NothingSent]
Reply(type, success, error) ==
    [type |-> type, success |-> success, error |-> error, wallet |-> NothingSent]

HasFree(ts) == \E t \in TaskIds : ts[t].pc = "free"
FreeSlot(ts) == CHOOSE t \in TaskIds :
                    ts[t].pc = "free" /\ \A u \in TaskIds : ts[u].pc = "free" => t <= u

Running(t) == tasks[t].pc \notin {"free", "queued", "done"}

\* The state the queue and the executors work on, as one value, so that a
\* handler that calls into the queue, which calls an executor, which calls a
\* result callback, is one step.
Machine == [q |-> walletActions, tip |-> pendingTipShowerApprovals,
            promo |-> pendingCreatePromotionApprovals, nonce |-> nonce,
            tasks |-> tasks, reply |-> NoReply, progress |-> <<>>]

\* ------------------------------------------------------------------ executeSendTip
\* The guards of executeSendTip.
SendTipGuard(m) ==
    IF ~isUnlocked \/ inMemoryWallet = NoWallet THEN "Wallet is locked."
    ELSE IF m.nonce = Null THEN "Nonce not initialized. Please wait a moment and try again."
    ELSE "ok"

\* A reservation that reads the cached nonce and leaves it as it is.
ReserveNonceShared(m, t) ==
    [m EXCEPT !.tasks[t].currentNonce = m.nonce,
              !.tasks[t].answer = "",
              !.tasks[t].pc = "validate"]

\* const currentNonce = nonce; nonce++; then the first await (token.decimals()).
ReserveNonce(m, t) ==
    [m EXCEPT !.nonce = m.nonce + 1,
              !.tasks[t].currentNonce = m.nonce,
              !.tasks[t].answer = "",
              !.tasks[t].pc = "validate"]

\* executeSendTip up to its first await: either it has returned (a guard
\* failed) or it holds a nonce and is suspended.
executeSendTip(m, t) ==
    LET g == SendTipGuard(m)
    IN IF g # "ok"
       THEN [m |-> m, returned |-> TRUE, error |-> g]
       ELSE [m |-> ReserveNonce(m, t), returned |-> FALSE, error |-> ""]

\* notifyTipShowerProgress(contextId, processed, total, status, ...): the
\* message names the batch, here by its invocation.
notifyTipShowerProgress(m, t, status) ==
    [m EXCEPT !.progress = Append(@, [task |-> t, processed |-> m.tasks[t].processed,
                                      total |-> m.tasks[t].total, status |-> status])]

\* executeTipShowerBatch up to its first await: its guard, the first progress
\* message, then the first executeSendTip of the loop, whose failure is
\* reported before the batch returns it.
executeTipShowerBatch(m, t) ==
    IF ~isUnlocked \/ inMemoryWallet = NoWallet
    THEN [m |-> m, returned |-> TRUE, error |-> "Wallet is locked."]
    ELSE LET e == executeSendTip(notifyTipShowerProgress(m, t, "processing"), t)
         IN IF e.returned
            THEN [e EXCEPT !.m = notifyTipShowerProgress(e.m, t, "failed")]
            ELSE e

\* ------------------------------------------------------------------ walletActions
\* The action queue (createWalletActionQueue).  An action is pending, then
\* approved, then completed or failed; or pending, then denied or cancelled.
\* It is executing from the call of its executor to the executor's return.
Executing(q) ==
    \E i \in 1..Len(q) : q[i].status = "approved" /\ q[i].executorCalls > 0

Waiting(q) ==
    { i \in 1..Len(q) : q[i].status = "approved" /\ q[i].executorCalls = 0 }

FirstWaiting(q) == CHOOSE i \in Waiting(q) : \A j \in Waiting(q) : i <= j

\* Result callbacks that leave the pending-approval maps alone.
resultCallbackKeeping(m, a, ok) == m

\* The result callbacks the handlers pass to enqueue: sendResponse for SEND_TIP
\* and TIP_SHOWER_BATCH, approvalResponseHandler and
\* promoApprovalResponseHandler for the approval requests.
resultCallback(m, a, ok) ==
    CASE a.kind = "REQUEST_TIP_SHOWER_APPROVAL" /\ ~ok ->
            [m EXCEPT !.tip[a.ctx] = NoEntry]
      [] a.kind = "REQUEST_CREATE_PROMOTION_APPROVAL" /\ ~ok ->
            [m EXCEPT !.promo[a.ctx] = NoEntry]
      [] OTHER -> m

\* The executor of action id has returned: the action is completed or failed
\* and its result callback is called with the result.
Finish(m, id, ok, error) ==
    resultCallback(
        [m EXCEPT !.q[id].status = IF ok THEN "completed" ELSE "failed",
                  !.q[id].resultCalls = @ + 1,
                  !.q[id].result = IF ok THEN "success" ELSE error],
        m.q[id], ok)

\* The queue calls the executor of action id.  The executors of the approval
\* requests have no await: they mark the context approved, or find it gone.
StartExecutor(m, id) ==
    LET a == m.q[id]
        m1 == [m EXCEPT !.q[id].executorCalls = @ + 1]
        sync(e) == IF e.returned
                   THEN Finish([e.m EXCEPT !.tasks[a.task] = DoneTask], id, FALSE, e.error)
                   ELSE e.m
    IN CASE a.kind = "REQUEST_TIP_SHOWER_APPROVAL" ->
              IF m1.tip[a.ctx].present
              THEN Finish([m1 EXCEPT !.tip[a.ctx].approved = TRUE], id, TRUE, "")
              ELSE Finish(m1, id, FALSE, "Tip shower request expired.")
         [] a.kind = "REQUEST_CREATE_PROMOTION_APPROVAL" ->
              IF m1.promo[a.ctx].present
              THEN Finish([m1 EXCEPT !.promo[a.ctx].approved = TRUE], id, TRUE, "")
              ELSE Finish(m1, id, FALSE, "Promotion request expired.")
         [] a.kind = "SEND_TIP" -> sync(executeSendTip(m1, a.task))
         [] a.kind = "TIP_SHOWER_BATCH" -> sync(executeTipShowerBatch(m1, a.task))

\* While no action is executing, the earliest approved action is started.
RECURSIVE Pump(_)
Pump(m) ==
    IF Executing(m.q) \/ Waiting(m.q) = {}
    THEN m
    ELSE Pump(StartExecutor(m, FirstWaiting(m.q)))

\* walletActions.enqueue(descriptor, executor, resultCallback): the id.
\* count and amount are the descriptor's, what the approval prompt shows; the
\* handler of a tip-shower request fills them in.
enqueue(m, kind, ctx, task) ==
    [m EXCEPT !.q = Append(m.q, [id |-> Len(m.q) + 1, kind |-> kind, ctx |-> ctx,
                                 task |-> task, count |-> 0, amount |-> 0,
                                 status |-> "pending", executorCalls |-> 0,
                                 resultCalls |-> 0, result |-> ""])]

\* An approve(id) that calls the executor whether or not an action is executing.
approveAtOnce(m, id) == StartExecutor([m EXCEPT !.q[id].status = "approved"], id)

\* approve(id)
approve(m, id) == Pump([m EXCEPT !.q[id].status = "approved"])

\* deny(id, reason) and cancel(id, reason): the result callback gets the
\* failure, the executor is not called.
Reject(m, id, status, reason) ==
    LET a == m.q[id]
        m1 == [m EXCEPT !.q[id].status = status,
                        !.q[id].resultCalls = @ + 1,
                        !.q[id].result = reason,
                        !.tasks = IF a.task # 0
                                  THEN [m.tasks EXCEPT ![a.task] = DoneTask]
                                  ELSE m.tasks]
    IN resultCallback(m1, a, FALSE)

deny(m, id) == Reject(m, id, "denied", "User rejected the request.")

\* walletActions.cancelById(id, reason): only a pending action is cancelled.
cancelById(m, id) ==
    IF id \in 1..Len(m.q) /\ m.q[id].status = "pending"
    THEN Reject(m, id, "cancelled", "cancelled")
    ELSE m

\* A respond(id, approved) that answers an action whatever its status.
respondAgain(m, id, approved) ==
    IF id \notin 1..Len(m.q)
    THEN [m EXCEPT !.reply = Reply("RESPOND_WALLET_ACTION", FALSE, "Action not found.")]
    ELSE LET m1 == IF approved THEN approve(m, id) ELSE deny(m, id)
         IN [m1 EXCEPT !.reply = Reply("RESPOND_WALLET_ACTION", TRUE, "")]

\* walletActions.respond(id, approved)
respond(m, id, approved) ==
    IF ~(id \in 1..Len(m.q) /\ m.q[id].status = "pending")
    THEN [m EXCEPT !.reply = Reply("RESPOND_WALLET_ACTION", FALSE, "Action not found.")]
    ELSE LET m1 == IF approved THEN approve(m, id) ELSE deny(m, id)
         IN [m1 EXCEPT !.reply = Reply("RESPOND_WALLET_ACTION", TRUE, "")]

\* ------------------------------------------------------------------ returns
\* The executor invocation t returns its result to its caller: the queue, the
\* QUEUE_TIP_SHOWER handler of an approved context, or a handler that passes
\* the result to sendResponse.
TaskReturn(m, t, ok, error) ==
    LET tk == m.tasks[t]
        m1 == [m EXCEPT !.tasks[t] = DoneTask]
    IN CASE tk.action # 0 -> Pump(Finish(m1, tk.action, ok, error))
         [] tk.origin = "QUEUE_TIP_SHOWER_CTX" ->
              [m1 EXCEPT !.tip[tk.ctx] = NoEntry,
                         !.reply = Reply(tk.origin, ok, error)]
         [] OTHER -> [m1 EXCEPT !.reply = Reply(tk.origin, ok, error)]

\* executeSendTip of invocation t returns.  In a batch the loop goes on: a
\* failure ends the batch, a success moves to the next recipient.
SendTipReturn(m, t, ok, error) ==
    IF m.tasks[t].kind # "batch" THEN TaskReturn(m, t, ok, error)
    ELSE IF ~ok THEN TaskReturn(notifyTipShowerProgress(m, t, "failed"), t, FALSE, error)
    ELSE LET m1 == [m EXCEPT !.tasks[t].processed = @ + 1]
         IN IF m.tasks[t].left = 1
            THEN TaskReturn(notifyTipShowerProgress(m1, t, "completed"), t, TRUE, "")
            ELSE LET e == executeSendTip(
                              [notifyTipShowerProgress(m1, t, "processing")
                                  EXCEPT !.tasks[t].left = @ - 1], t)
                 IN IF e.returned
                    THEN TaskReturn(notifyTipShowerProgress(e.m, t, "failed"),
                                    t, FALSE, e.error)
                    ELSE e.m

\* ------------------------------------------------------------------ steps
Apply(m) ==
    /\ walletActions' = m.q
    /\ pendingTipShowerApprovals' = m.tip
    /\ pendingCreatePromotionApprovals' = m.promo
    /\ nonce' = m.nonce
    /\ tasks' = m.tasks
    /\ reply' = m.reply
    /\ progress' = m.progress

sessionVars == <<isUnlocked, inMemoryWallet, sessionStore, walletData, unlock, unlocks,
                 welcome, useWallet>>
flagVars == <<createPromotionInFlight, cancelPromotionInFlight, engageInPromotionInFlight>>
ledgerVars == <<ledgerLatest, pool, broadcasts>>

Respond(m, type, success, error) == [m EXCEPT !.reply = Reply(type, success, error)]

\* A task slot taken by a new executor invocation.
NewTask(kind, origin, action, ctx, left) ==
    [FreeTask EXCEPT !.pc = "queued", !.kind = kind, !.origin = origin,
                     !.action = action, !.ctx = ctx, !.left = left, !.total = left]

\* ------------------------------------------------------------------ the stored wallet
\* The passwords a caller may give; the first is the one the wallet was saved with.
Passwords == {"password", "guess"}

\* chrome.storage.local's walletData: absent, or { address, encryptedPrivateKey }.
\* An encrypted payload is the key, the password it was encrypted with and
\* whether its bytes are still those that were written.
NoRecord == [present |-> FALSE]
\* encryptPrivateKey(privateKey, password): the payload that only this
\* password opens.
encryptPrivateKey(privateKey, password) ==
    [privateKey |-> privateKey, password |-> password, intact |-> TRUE]

\* A record that stores the wallet's key under another wallet's address.
encryptWalletMislabelled(wallet, password) ==
    [present |-> TRUE,
     address |-> AddressOf(CHOOSE k \in PrivateKeys : k # wallet.privateKey),
     encryptedPrivateKey |-> encryptPrivateKey(wallet.privateKey, password)]

\* encryptWallet(wallet, password): the WalletData that saveWallet stores.
encryptWallet(wallet, password) ==
    [present |-> TRUE, address |-> wallet.address,
     encryptedPrivateKey |-> encryptPrivateKey(wallet.privateKey, password)]

Payload(intact) ==
    [encryptPrivateKey(WalletInfo.privateKey, "password") EXCEPT !.intact = intact]
SavedWallet == encryptWallet(WalletInfo, "password")
StoredRecords ==
    {NoRecord, SavedWallet, [SavedWallet EXCEPT !.encryptedPrivateKey = Payload(FALSE)]}

\* decryptPrivateKey(payload, password): the key, or it throws when the
\* password is not the one the payload was encrypted with or the payload's
\* bytes were changed (the authentication tag does not match).
decryptPrivateKey(payload, password) ==
    IF payload.intact /\ payload.password = password
    THEN [threw |-> FALSE, privateKey |-> payload.privateKey]
    ELSE [threw |-> TRUE, privateKey |-> ""]

\* An unlockAndInitializeWallet that reports what went wrong with the record.
unlockTellingWhy(data, userPassword) ==
    IF ~data.present
    THEN [error |-> "No wallet found in storage.", wallet |-> NothingSent]
    ELSE IF ~data.encryptedPrivateKey.intact
    THEN [error |-> "Wallet data is corrupted.", wallet |-> NothingSent]
    ELSE LET d == decryptPrivateKey(data.encryptedPrivateKey, userPassword)
         IN IF d.threw \/ d.privateKey = ""
            THEN [error |-> "Invalid password.", wallet |-> NothingSent]
            ELSE [error |-> "", wallet |-> WalletOf(d.privateKey)]

\* unlockAndInitializeWallet(userPassword): the WalletInfo, or the error thrown.
unlockAndInitializeWallet(data, userPassword) ==
    IF ~data.present
    THEN [error |-> "No wallet found in storage.", wallet |-> NothingSent]
    ELSE LET d == decryptPrivateKey(data.encryptedPrivateKey, userPassword)
         IN IF d.threw \/ d.privateKey = ""
            THEN [error |-> "Invalid password.", wallet |-> NothingSent]
            ELSE [error |-> "", wallet |-> WalletOf(d.privateKey)]

\* decryptWallet(walletData, password): the wallet of the decrypted key, or
\* the error thrown.
decryptWallet(data, password) ==
    LET d == decryptPrivateKey(data.encryptedPrivateKey, password)
    IN IF d.threw \/ d.privateKey = ""
       THEN [error |-> "Incorrect password", wallet |-> NoWallet]
       ELSE [error |-> "", wallet |-> WalletOf(d.privateKey)]

\* ---- the Welcome page and the useWallet hook
\* The words of a recovery phrase and the positions asked back; a phrase has
\* PhraseLength words here.
PhraseLength == 4
PhraseIndices == 0..(PhraseLength - 1)
\* const picks = new Set<number>(); while (picks.size < Math.min(3, total)).
VerifyCount == 3
\* The component state of Welcome before any input; wallet: the key of the
\* wallet held ("" for null); verifyInputs[idx] || "" is "" for an index
\* that has no input; revealed: the key of the wallet whose phrase the reveal
\* step showed last ("" before any).
NoWelcome ==
    [tab |-> "create", createStep |-> "password", importStep |-> "method",
     password |-> "", confirmPassword |-> "", wallet |-> "",
     verifyIndices |-> {}, verifyInputs |-> [i \in PhraseIndices |-> ""],
     setupComplete |-> FALSE, error |-> "", revealed |-> ""]
\* The hook before any call: no wallet (its key is ""), nothing asked of the
\* ledger.  calls: the contract calls and transactions the hook made, each
\* with the symbol of the token it was made for.
NoHook == [wallet |-> "", calls |-> {}, error |-> ""]

\* password.length, of what is typed into a password field here: nothing,
\* "short" or "password".
passwordLength(p) == IF p = "" THEN 0 ELSE IF p = "short" THEN 5 ELSE 8
\* if (password.length < 8)
MinPasswordLength == 8
\* wallet.mnemonic.phrase.trim().split(/\s+/): the words of the phrase of the
\* wallet with this key, by position.
MnemonicWords(privateKey) ==
    [i \in PhraseIndices |->
        IF (privateKey = "0xKEY") = (i % 2 = 0) THEN "alpha" ELSE "bravo"]
\* (verifyInputs[idx] || "").trim().toLowerCase(), of what is typed into a
\* word field here: "alpha", " Alpha" or "bravo".
trimToLowerCase(text) == IF text = " Alpha" THEN "alpha" ELSE text

\* The setup page takes input: no wallet is set up yet (alreadySetup is
\* false) and setup has not completed.
WelcomeOpen == ~walletData.present /\ ~welcome.setupComplete
PasswordFieldsShown ==
    \/ welcome.tab = "create" /\ welcome.createStep = "password"
    \/ welcome.tab = "import" /\ welcome.importStep = "password"
\* What the page shows after a state change: the reveal step of the create
\* tab renders wallet.mnemonic.phrase.
Render(w) ==
    IF w.tab = "create" /\ w.createStep = "reveal" /\ ~w.setupComplete /\ w.wallet # ""
    THEN [w EXCEPT !.revealed = w.wallet]
    ELSE w
\* A step of a page of the extension: the background script does nothing.
BackgroundIdle ==
    /\ UNCHANGED <<isUnlocked, inMemoryWallet, nonce, flagVars, walletActions,
                   pendingTipShowerApprovals, pendingCreatePromotionApprovals,
                   tasks, unlock, unlocks, sessionStore, ledgerVars>>
    /\ reply' = NoReply
    /\ progress' = <<>>

\* onChange={(e) => setPassword(e.target.value)}, in the create tab's and the
\* import tab's password step.
setPassword(value) ==
    /\ WelcomeOpen /\ PasswordFieldsShown
    /\ welcome' = Render([welcome EXCEPT !.password = value])
    /\ UNCHANGED walletData /\ BackgroundIdle /\ UNCHANGED useWallet

\* onChange={(e) => setConfirmPassword(e.target.value)}
setConfirmPassword(value) ==
    /\ WelcomeOpen /\ PasswordFieldsShown
    /\ welcome' = Render([welcome EXCEPT !.confirmPassword = value])
    /\ UNCHANGED walletData /\ BackgroundIdle /\ UNCHANGED useWallet

\* The three checks handleCreateWallet and handleImportWallet make of the
\* password: the error set, or "" when it passes.
passwordError(password, confirmPassword) ==
    IF password = "" THEN "Please enter a password"
    ELSE IF password # confirmPassword THEN "Passwords do not match"
    ELSE IF passwordLength(password) < MinPasswordLength
    THEN "Password must be at least 8 characters long"
    ELSE ""

\* handleCreateWallet: the Create button of the password step.  createWallet()
\* is ethers.Wallet.createRandom(): any key.
handleCreateWallet ==
    /\ WelcomeOpen /\ welcome.tab = "create" /\ welcome.createStep = "password"
    /\ LET e == passwordError(welcome.password, welcome.confirmPassword)
       IN IF e # ""
          THEN welcome' = Render([welcome EXCEPT !.error = e])
          ELSE \E k \in PrivateKeys :
                   welcome' = Render([welcome EXCEPT !.error = "", !.wallet = k,
                                              !.createStep = "reveal"])
    /\ UNCHANGED walletData /\ BackgroundIdle /\ UNCHANGED useWallet

\* The Back buttons of the create tab: reveal to password, verify to reveal.
CreateBack ==
    /\ WelcomeOpen /\ welcome.tab = "create"
    /\ welcome.createStep \in {"reveal", "verify"}
    /\ welcome' = Render([welcome EXCEPT
                      !.createStep = IF @ = "reveal" THEN "password" ELSE "reveal"])
    /\ UNCHANGED walletData /\ BackgroundIdle /\ UNCHANGED useWallet

\* startVerify: the Continue button of the reveal step picks
\* Math.min(3, total) positions of the phrase and clears the inputs.
startVerify ==
    /\ WelcomeOpen /\ welcome.tab = "create" /\ welcome.createStep = "reveal"
    /\ IF welcome.wallet = ""
       THEN welcome' = Render([welcome EXCEPT !.error = "Mnemonic not available."])
       ELSE \E selected \in SUBSET PhraseIndices :
               /\ Cardinality(selected) =
                      (IF VerifyCount < PhraseLength THEN VerifyCount ELSE PhraseLength)
               /\ welcome' = Render([welcome EXCEPT
                                 !.error = "", !.verifyIndices = selected,
                                 !.verifyInputs = [i \in PhraseIndices |-> ""],
                                 !.createStep = "verify"])
    /\ UNCHANGED walletData /\ BackgroundIdle /\ UNCHANGED useWallet

\* onChange of a word field of the verify step.
setVerifyInputs(idx, text) ==
    /\ WelcomeOpen /\ welcome.tab = "create" /\ welcome.createStep = "verify"
    /\ idx \in welcome.verifyIndices
    /\ welcome' = Render([welcome EXCEPT !.verifyInputs[idx] = text])
    /\ UNCHANGED walletData /\ BackgroundIdle /\ UNCHANGED useWallet

\* handleVerifyMnemonic: every requested word is compared; when all match
\* the wallet is encrypted under the password and saved.  saved: saveWallet
\* did not throw.
handleVerifyMnemonic(saved) ==
    /\ WelcomeOpen /\ welcome.tab = "create" /\ welcome.createStep = "verify"
    /\ IF welcome.wallet = ""
       THEN /\ welcome' = Render([welcome EXCEPT !.error = "Mnemonic not available."])
            /\ UNCHANGED walletData
       ELSE IF \E idx \in welcome.verifyIndices :
                  trimToLowerCase(welcome.verifyInputs[idx])
                      # MnemonicWords(welcome.wallet)[idx]
       THEN /\ welcome' = Render([welcome EXCEPT !.error = "Word does not match."])
            /\ UNCHANGED walletData
       ELSE IF saved
       THEN /\ walletData' = encryptWallet(WalletOf(welcome.wallet), welcome.password)
            /\ welcome' = Render([welcome EXCEPT !.error = "", !.setupComplete = TRUE])
       ELSE /\ welcome' = Render([welcome EXCEPT
                              !.error = "Failed to save wallet. Please try again."])
            /\ UNCHANGED walletData
    /\ BackgroundIdle /\ UNCHANGED useWallet

\* handleTabChange(newTab): the two tab buttons.
handleTabChange(newTab) ==
    /\ WelcomeOpen
    /\ welcome' = Render([welcome EXCEPT
                      !.tab = newTab, !.error = "",
                      !.createStep = IF newTab = "create" THEN "password" ELSE @,
                      !.importStep = IF newTab = "import" THEN "method" ELSE @])
    /\ UNCHANGED walletData /\ BackgroundIdle /\ UNCHANGED useWallet

\* The import tab's method step: Continue (entered: a key or phrase was
\* typed) goes to the password step, Back is setTab("create").
ImportMethodStep(entered, back) ==
    /\ WelcomeOpen /\ welcome.tab = "import" /\ welcome.importStep = "method"
    /\ welcome' =
          IF back THEN Render([welcome EXCEPT !.error = "", !.tab = "create"])
          ELSE IF entered THEN Render([welcome EXCEPT !.error = "", !.importStep = "password"])
          ELSE Render([welcome EXCEPT !.error = "Please enter a private key"])
    /\ UNCHANGED walletData /\ BackgroundIdle /\ UNCHANGED useWallet

\* The Back button of the import tab's password step.
ImportBack ==
    /\ WelcomeOpen /\ welcome.tab = "import" /\ welcome.importStep = "password"
    /\ welcome' = Render([welcome EXCEPT !.error = "", !.importStep = "method"])
    /\ UNCHANGED walletData /\ BackgroundIdle /\ UNCHANGED useWallet

\* handleImportWallet: the Import Wallet button; imported: the key of the
\* wallet the typed key or phrase gives.
handleImportWallet(imported, saved) ==
    /\ WelcomeOpen /\ welcome.tab = "import" /\ welcome.importStep = "password"
    /\ LET e == passwordError(welcome.password, welcome.confirmPassword)
       IN IF e # ""
          THEN /\ welcome' = Render([welcome EXCEPT !.error = e])
               /\ UNCHANGED walletData
          ELSE IF saved
          THEN /\ walletData' = encryptWallet(WalletOf(imported), welcome.password)
               /\ welcome' = Render([welcome EXCEPT !.error = "", !.wallet = imported,
                                              !.setupComplete = TRUE])
          ELSE /\ welcome' = Render([welcome EXCEPT !.wallet = imported,
                                 !.error = "Failed to import wallet."])
               /\ UNCHANGED walletData
    /\ BackgroundIdle /\ UNCHANGED useWallet

NextWelcome ==
    \/ \E value \in {"", "short", "password"} : setPassword(value)
    \/ \E value \in {"", "short", "password"} : setConfirmPassword(value)
    \/ handleCreateWallet
    \/ CreateBack
    \/ startVerify
    \/ \E idx \in PhraseIndices, text \in {"alpha", " Alpha", "bravo"} :
          setVerifyInputs(idx, text)
    \/ \E saved \in BOOLEAN : handleVerifyMnemonic(saved)
    \/ \E newTab \in {"create", "import"} : handleTabChange(newTab)
    \/ \E entered, back \in BOOLEAN : ImportMethodStep(entered, back)
    \/ ImportBack
    \/ \E imported \in PrivateKeys, saved \in BOOLEAN : handleImportWallet(imported, saved)

\* ---- the useWallet hook
\* TOKENS_MAP of ../constants: the supported tokens by symbol; the native
\* token has no contract.  TOKENS[0], the default, is the native token.
TOKENS_MAP ==
    [symbol \in {"AVAX", "PLUS", "ARENA"} |->
        [symbol |-> symbol, isNative |-> symbol = "AVAX",
         address |-> IF symbol = "PLUS" THEN "0xPLUS"
                     ELSE IF symbol = "ARENA" THEN "0xARENA" ELSE ""]]
PLUS_TOKEN == TOKENS_MAP["PLUS"]

\* A call the hook makes of the ledger for a token.
Call(tokenSymbol, contract, method, to, amount) ==
    [tokenSymbol |-> tokenSymbol, contract |-> contract, method |-> method,
     to |-> to, amount |-> amount]

\* getTokenBalance(address): the balance of every token of TOKENS is read,
\* the native one from the provider, the others from the contract at
\* token.address.
getTokenBalance ==
    { Call(symbol, TOKENS_MAP[symbol].address,
           IF TOKENS_MAP[symbol].isNative THEN "getBalance" ELSE "balanceOf", "", 0) :
        symbol \in DOMAIN TOKENS_MAP }

\* init and unlockWallet set the hook's wallet from the background script's
\* answer, lockWallet clears it.
setWallet(privateKey) ==
    /\ useWallet.wallet # privateKey
    /\ useWallet' = [useWallet EXCEPT !.wallet = privateKey]
    /\ UNCHANGED <<walletData, welcome>> /\ BackgroundIdle

\* transferTokens(toAddress, amount, tokenSymbol): tokenSymbol "" is an
\* absent argument, toAddress "bad" is not an address; balance and fee are
\* what the ledger answers.  A throw sets the error and leaves the calls made
\* before it.
transferTokens(toAddress, amount, tokenSymbol, balance, fee) ==
    /\ LET threw(message, made) ==
               [useWallet EXCEPT !.error = message, !.calls = @ \cup made]
           symbol == IF tokenSymbol = "" THEN "AVAX" ELSE tokenSymbol
       IN useWallet' =
            IF useWallet.wallet = "" THEN threw("Wallet not connected", {})
            ELSE IF toAddress = "bad"
            THEN threw("Invalid recipient address format", {})
            ELSE IF amount <= 0 THEN threw("Amount must be a positive number", {})
            ELSE IF symbol \notin DOMAIN TOKENS_MAP THEN threw("Unsupported token", {})
            ELSE LET token == TOKENS_MAP[symbol]
                 IN IF token.isNative
                    THEN LET read == {Call(symbol, "", "getBalance", "", 0)}
                         IN IF balance < amount + fee
                            THEN threw("Insufficient AVAX balance (including gas fees)",
                                       read)
                            ELSE [useWallet EXCEPT
                                    !.error = "",
                                    !.calls = @ \cup read \cup getTokenBalance \cup
                                        {Call(symbol, "", "sendTransaction",
                                              toAddress, amount)}]
                    ELSE LET read == {Call(symbol, PLUS_TOKEN.address, "decimals", "", 0),
                                      Call(symbol, PLUS_TOKEN.address, "balanceOf", "", 0)}
                         IN IF balance < amount
                            THEN threw("Insufficient balance", read)
                            ELSE [useWallet EXCEPT
                                    !.error = "",
                                    !.calls = @ \cup read \cup getTokenBalance \cup
                                        {Call(symbol, PLUS_TOKEN.address, "transfer",
                                              toAddress, amount)}]
    /\ UNCHANGED <<walletData, welcome>> /\ BackgroundIdle

NextHook ==
    \/ \E privateKey \in {"", WalletInfo.privateKey} : setWallet(privateKey)
    \/ \E toAddress \in {"0xB", "bad"}, amount \in 0..2,
          tokenSymbol \in {"", "AVAX", "PLUS", "ARENA", "DOGE"},
          balance \in {0, 3}, fee \in 0..1 :
            transferTokens(toAddress, amount, tokenSymbol, balance, fee)

\* No UNLOCK_WALLET in progress.  wallet: the wallet the promise chain holds.
NoUnlock == [pc |-> "idle", n |-> Null, password |-> "", wallet |-> NoWallet]

Init ==
    /\ isUnlocked = FALSE
    /\ inMemoryWallet = NoWallet
    /\ nonce = Null
    /\ createPromotionInFlight = FALSE
    /\ cancelPromotionInFlight = FALSE
    /\ engageInPromotionInFlight = FALSE
    /\ walletActions = <<>>
    /\ pendingTipShowerApprovals = [c \in ContextIds |-> NoEntry]
    /\ pendingCreatePromotionApprovals = [c \in ContextIds |-> NoEntry]
    /\ tasks = [t \in TaskIds |-> FreeTask]
    /\ unlock = NoUnlock
    /\ unlocks = 0
    /\ sessionStore = FALSE
    /\ walletData \in StoredRecords
    /\ ledgerLatest = 0
    /\ pool = {}
    /\ broadcasts = {}
    /\ reply = NoReply
    /\ progress = <<>>
    /\ welcome = NoWelcome
    /\ useWallet = NoHook

\* ---- the session
\* case "UNLOCK_WALLET": unlockAndInitializeWallet is started.
UNLOCK_WALLET(password) ==
    /\ unlock.pc = "idle"
    /\ unlocks < MaxUnlocks
    /\ unlock' = [pc |-> "decrypt", n |-> Null, password |-> password, wallet |-> NoWallet]
    /\ unlocks' = unlocks + 1
    /\ reply' = NoReply
    /\ UNCHANGED <<isUnlocked, inMemoryWallet, sessionStore, nonce, walletActions,
                   pendingTipShowerApprovals, pendingCreatePromotionApprovals, tasks>>
    /\ UNCHANGED <<flagVars, ledgerVars>>
    /\ UNCHANGED <<walletData, welcome, useWallet>>
    /\ progress' = <<>>

\* unlockAndInitializeWallet has settled: with an error, or with the wallet,
\* which is cached and mirrored, and the nonce read is started.
UnlockSettled ==
    /\ unlock.pc = "decrypt"
    /\ LET r == unlockAndInitializeWallet(walletData, unlock.password)
       IN IF r.error = ""
          THEN /\ inMemoryWallet' = r.wallet
               /\ isUnlocked' = TRUE
               /\ sessionStore' = TRUE
               /\ unlock' = [unlock EXCEPT !.pc = "getNonce", !.wallet = r.wallet]
               /\ reply' = NoReply
          ELSE /\ unlock' = NoUnlock
               /\ reply' = Reply("UNLOCK_WALLET", FALSE, r.error)
               /\ UNCHANGED <<inMemoryWallet, isUnlocked, sessionStore>>
    /\ UNCHANGED <<unlocks, nonce, walletActions, pendingTipShowerApprovals,
                   pendingCreatePromotionApprovals, tasks>>
    /\ UNCHANGED <<flagVars, ledgerVars>>
    /\ UNCHANGED <<walletData, welcome, useWallet>>
    /\ progress' = <<>>

\* The ledger answers the getNonce("latest") of the unlock, or the call fails.
UnlockNonceRead ==
    /\ unlock.pc = "getNonce"
    /\ unlock.n = Null
    /\ \/ /\ unlock' = [unlock EXCEPT !.n = getNonceLatest]
          /\ reply' = NoReply
       \/ /\ unlock' = NoUnlock
          /\ reply' = Reply("UNLOCK_WALLET", FALSE, "network error")
    /\ UNCHANGED <<isUnlocked, inMemoryWallet, sessionStore, unlocks, nonce,
                   walletActions, pendingTipShowerApprovals,
                   pendingCreatePromotionApprovals, tasks>>
    /\ UNCHANGED <<flagVars, ledgerVars>>
    /\ UNCHANGED <<walletData, welcome, useWallet>>
    /\ progress' = <<>>

\* .then((n) => { nonce = n; sendResponse({ success: true, wallet }) })
UnlockNonceWrite ==
    /\ unlock.pc = "getNonce"
    /\ unlock.n # Null
    /\ nonce' = unlock.n
    /\ unlock' = NoUnlock
    /\ reply' = [Reply("UNLOCK_WALLET", TRUE, "") EXCEPT !.wallet = unlock.wallet]
    /\ UNCHANGED <<isUnlocked, inMemoryWallet, sessionStore, unlocks, walletActions,
                   pendingTipShowerApprovals, pendingCreatePromotionApprovals, tasks>>
    /\ UNCHANGED <<flagVars, ledgerVars>>
    /\ UNCHANGED <<walletData, welcome, useWallet>>
    /\ progress' = <<>>

\* A LOCK_WALLET that leaves the cached nonce as it is.
LockKeepingNonce ==
    /\ isUnlocked' = FALSE
    /\ inMemoryWallet' = NoWallet
    /\ sessionStore' = FALSE
    /\ reply' = Reply("LOCK_WALLET", TRUE, "")
    /\ UNCHANGED <<nonce, unlock, unlocks, walletActions, pendingTipShowerApprovals,
                   pendingCreatePromotionApprovals, tasks>>
    /\ UNCHANGED <<flagVars, ledgerVars>>
    /\ UNCHANGED <<walletData, welcome, useWallet>>
    /\ progress' = <<>>

\* case "LOCK_WALLET"
LOCK_WALLET ==
    /\ isUnlocked' = FALSE
    /\ inMemoryWallet' = NoWallet
    /\ nonce' = Null
    /\ sessionStore' = FALSE
    /\ reply' = Reply("LOCK_WALLET", TRUE, "")
    /\ UNCHANGED <<unlock, unlocks, walletActions, pendingTipShowerApprovals,
                   pendingCreatePromotionApprovals, tasks>>
    /\ UNCHANGED <<flagVars, ledgerVars>>
    /\ UNCHANGED <<walletData, welcome, useWallet>>
    /\ progress' = <<>>

\* The wallet a handler reads from the cache and puts into a response.
CachedWallet == IF inMemoryWallet = NoWallet THEN NothingSent ELSE inMemoryWallet

\* case "GET_APP_STATE": supabase.auth.getSession() has settled and the
\* response is sent: { isUnlocked, wallet: inMemoryWallet, twitterUser }.
GET_APP_STATE ==
    /\ reply' = [Reply("GET_APP_STATE", isUnlocked, "") EXCEPT !.wallet = CachedWallet]
    /\ progress' = <<>>
    /\ UNCHANGED <<nonce, walletActions, pendingTipShowerApprovals,
                   pendingCreatePromotionApprovals, tasks>>
    /\ UNCHANGED <<sessionVars, flagVars, ledgerVars>>

\* case "CHECK_WALLET_STATUS": { isUnlocked: isUnlocked && !!inMemoryWallet,
\* hasWallet: !!inMemoryWallet }.
CHECK_WALLET_STATUS ==
    /\ reply' = Reply("CHECK_WALLET_STATUS", isUnlocked /\ inMemoryWallet # NoWallet, "")
    /\ progress' = <<>>
    /\ UNCHANGED <<nonce, walletActions, pendingTipShowerApprovals,
                   pendingCreatePromotionApprovals, tasks>>
    /\ UNCHANGED <<sessionVars, flagVars, ledgerVars>>

\* case "GET_WALLET_ACTION_QUEUE": { queue: walletActions.getSummary() }, the
\* id, descriptor and status of the actions not yet in a terminal state.
GET_WALLET_ACTION_QUEUE ==
    /\ reply' = Reply("GET_WALLET_ACTION_QUEUE", TRUE, "")
    /\ progress' = <<>>
    /\ UNCHANGED <<nonce, walletActions, pendingTipShowerApprovals,
                   pendingCreatePromotionApprovals, tasks>>
    /\ UNCHANGED <<sessionVars, flagVars, ledgerVars>>

\* ---- the ledger
\* The ledger mines the account's next pending transaction.
Mine ==
    /\ ledgerLatest \in pool
    /\ ledgerLatest' = ledgerLatest + 1
    /\ pool' = pool \ {ledgerLatest}
    /\ reply' = NoReply
    /\ progress' = <<>>
    /\ UNCHANGED <<broadcasts, nonce, walletActions, pendingTipShowerApprovals,
                   pendingCreatePromotionApprovals, tasks>>
    /\ UNCHANGED <<sessionVars, flagVars>>

\* A transaction of the same account sent from elsewhere takes the next nonce
\* and is mined.
External ==
    /\ ledgerLatest < MaxLedgerNonce
    /\ ledgerLatest \notin pool
    /\ ledgerLatest' = ledgerLatest + 1
    /\ pool' = pool
    /\ reply' = NoReply
    /\ progress' = <<>>
    /\ UNCHANGED <<broadcasts, nonce, walletActions, pendingTipShowerApprovals,
                   pendingCreatePromotionApprovals, tasks>>
    /\ UNCHANGED <<sessionVars, flagVars>>

\* The nonce source of each transaction the script sends: the cached counter
\* (transfer), a ledger read made by the executor (approve, createPromotion,
\* subscribe), or the ledger client's own choice (cancelPromotion).
TxPcs == {"transfer", "approve", "createPromotion", "subscribe", "cancelPromotion"}
NonceSource(tx) ==
    CASE tx = "transfer" -> "cached"
      [] tx \in {"approve", "createPromotion", "subscribe"} -> "ledgerRead"
      [] tx = "cancelPromotion" -> "client"

\* The nonce a transaction is sent with: the one the invocation holds, or for
\* cancelPromotion, sent without a nonce override, the pending count the
\* ledger client reads when it fills the transaction in.
TxNonce(tk) == IF tk.pc = "cancelPromotion" THEN getNoncePending ELSE tk.currentNonce

\* A transaction sent by invocation t reaches the ledger, which answers.
LedgerReceive(t) ==
    /\ tasks[t].pc \in TxPcs
    /\ tasks[t].answer = ""
    /\ LET tk == tasks[t]
           n == TxNonce(tk)
       IN \E answer \in LedgerAnswers(n) :
            /\ pool' = IF answer = "accepted" THEN pool \cup {n} ELSE pool
            /\ broadcasts' = broadcasts \cup
                   {[task |-> t, tx |-> tk.pc, nonce |-> n, source |-> NonceSource(tk.pc),
                     origin |-> tk.origin, action |-> tk.action, ctx |-> tk.ctx,
                     answer |-> answer]}
            /\ tasks' = [tasks EXCEPT ![t].answer = answer, ![t].currentNonce = n]
    /\ reply' = NoReply
    /\ progress' = <<>>
    /\ UNCHANGED <<ledgerLatest, nonce, walletActions, pendingTipShowerApprovals,
                   pendingCreatePromotionApprovals>>
    /\ UNCHANGED <<sessionVars, flagVars>>

\* ---- executeSendTip after its awaits
TipKinds == {"tip", "batch"}

\* decimals(), parseUnits and balanceOf() have settled: the balance suffices,
\* or it does not, or one of the calls threw.
TipValidated(t) ==
    /\ tasks[t].pc = "validate"
    /\ tasks[t].kind \in TipKinds
    /\ \E outcome \in {"ok", "INSUFFICIENT_BALANCE", "Failed to send tip"} :
         IF outcome = "ok"
         THEN Apply([Machine EXCEPT !.tasks[t].pc = "transfer", !.tasks[t].answer = ""])
         ELSE Apply(SendTipReturn(Machine, t, FALSE, outcome))
    /\ UNCHANGED <<sessionVars, flagVars, ledgerVars>>

\* The catch block of an executor: on a nonce error the re-sync read is
\* started, unless the wallet is gone (inMemoryWallet! throws inside the try).
StartsResync(answer) == isNonceError(answer) /\ inMemoryWallet # NoWallet

\* token.transfer has settled.
TipTransferred(t) ==
    /\ tasks[t].pc = "transfer"
    /\ tasks[t].answer # ""
    /\ LET answer == tasks[t].answer
       IN IF answer = "accepted"
          THEN Apply(SendTipReturn(Machine, t, TRUE, ""))
          ELSE IF StartsResync(answer)
          THEN Apply([Machine EXCEPT !.tasks[t].pc = "resync", !.tasks[t].n = Null])
          ELSE Apply(SendTipReturn(Machine, t, FALSE, answer))
    /\ UNCHANGED <<sessionVars, flagVars, ledgerVars>>

\* An executor returns its result; executeCreatePromotion's finally block
\* clears createPromotionInFlight.  The ENGAGE_IN_PROMOTION handler has sent
\* its response before its re-sync, and its finally block clears
\* engageInPromotionInFlight.
ExecReturn(m, t, ok, error) ==
    IF m.tasks[t].kind \in TipKinds
    THEN SendTipReturn(m, t, ok, error)
    ELSE IF m.tasks[t].kind = "engage"
    THEN [m EXCEPT !.tasks[t] = DoneTask]
    ELSE TaskReturn(m, t, ok, error)

FlagAfterReturn(t) ==
    /\ createPromotionInFlight' =
          IF tasks[t].kind = "promo" THEN FALSE ELSE createPromotionInFlight
    /\ engageInPromotionInFlight' =
          IF tasks[t].kind = "engage" THEN FALSE ELSE engageInPromotionInFlight

\* The ledger answers the getNonce("latest") of a re-sync, or the call fails
\* and the failure is logged.
ResyncRead(t) ==
    /\ tasks[t].pc = "resync"
    /\ tasks[t].n = Null
    /\ \/ /\ Apply([Machine EXCEPT !.tasks[t].n = getNonceLatest])
          /\ UNCHANGED <<createPromotionInFlight, engageInPromotionInFlight>>
       \/ /\ Apply(ExecReturn(Machine, t, FALSE, tasks[t].answer))
          /\ FlagAfterReturn(t)
    /\ UNCHANGED <<sessionVars, cancelPromotionInFlight, ledgerVars>>

\* nonce = await signer.getNonce("latest"), the assignment; then the failure
\* is returned.
ResyncWrite(t) ==
    /\ tasks[t].pc = "resync"
    /\ tasks[t].n # Null
    /\ Apply(ExecReturn([Machine EXCEPT !.nonce = tasks[t].n], t, FALSE, tasks[t].answer))
    /\ FlagAfterReturn(t)
    /\ UNCHANGED <<sessionVars, cancelPromotionInFlight, ledgerVars>>

\* ---- executeCreatePromotion and executeSubscribeToToken after their awaits
\* The guards the two executors share.
ExecGuard ==
    IF ~isUnlocked \/ inMemoryWallet = NoWallet THEN "Wallet is locked."
    ELSE IF nonce = Null THEN "Nonce not initialized. Please wait a moment and try again."
    ELSE "ok"

\* The native currency amounts of the model: balances, subscription fees, and
\* the network fee of one transaction.
NativeAmounts == 0..MaxNative
NetworkFee == 1

\* executeSubscribeToToken's check of the balance against the fee it sends as
\* value: if (balance < totalFee) return "Insufficient AVAX balance ...".
SubscribeAffordable(balance, totalFee) == ~(balance < totalFee)

\* The reads before the nonce is fetched have settled (platformToken,
\* decimals, balanceOf, allowance; subscriptionFee, getBalance): the checks
\* pass, or one fails or a read throws and the executor returns the failure.
ExecValidated(t) ==
    /\ tasks[t].pc = "validate"
    /\ tasks[t].kind \in {"promo", "sub"}
    /\ \/ /\ tasks[t].kind = "promo"
          /\ \E needApprove \in BOOLEAN :
               Apply([Machine EXCEPT !.tasks[t].pc = "getNonce",
                                     !.tasks[t].needApprove = needApprove])
          /\ UNCHANGED <<createPromotionInFlight, engageInPromotionInFlight>>
       \/ /\ tasks[t].kind = "sub"
          /\ \E balance \in NativeAmounts, totalFee \in NativeAmounts :
               IF SubscribeAffordable(balance, totalFee)
               THEN Apply([Machine EXCEPT
                              !.tasks[t].pc = "getNonce",
                              !.tasks[t].feeShort = balance < totalFee + NetworkFee])
               ELSE Apply(TaskReturn(Machine, t, FALSE,
                              "Insufficient AVAX balance for subscription fee."))
          /\ UNCHANGED <<createPromotionInFlight, engageInPromotionInFlight>>
       \/ /\ Apply(TaskReturn(Machine, t, FALSE, "Insufficient balance."))
          /\ FlagAfterReturn(t)
    /\ UNCHANGED <<sessionVars, cancelPromotionInFlight, ledgerVars>>

\* const baseNonce = await signer.getNonce("pending"); then the first
\* transaction is sent with it.
GetNoncePendingDone(t) ==
    /\ tasks[t].pc = "getNonce"
    /\ Apply([Machine EXCEPT
                !.tasks[t].currentNonce = getNoncePending,
                !.tasks[t].answer = "",
                !.tasks[t].pc = IF tasks[t].kind = "sub" THEN "subscribe"
                                ELSE IF tasks[t].needApprove THEN "approve"
                                ELSE "createPromotion"])
    /\ UNCHANGED <<sessionVars, flagVars, ledgerVars>>

\* token.approve has settled: accepted, its confirmation is awaited.
PromoApproveSent(t) ==
    /\ tasks[t].pc = "approve"
    /\ tasks[t].answer # ""
    /\ LET answer == tasks[t].answer
       IN IF answer = "accepted"
          THEN /\ Apply([Machine EXCEPT !.tasks[t].pc = "approveWait"])
               /\ UNCHANGED <<createPromotionInFlight, engageInPromotionInFlight>>
          ELSE IF StartsResync(answer)
          THEN /\ Apply([Machine EXCEPT !.tasks[t].pc = "resync", !.tasks[t].n = Null])
               /\ UNCHANGED <<createPromotionInFlight, engageInPromotionInFlight>>
          ELSE /\ Apply(TaskReturn(Machine, t, FALSE, answer))
               /\ FlagAfterReturn(t)
    /\ UNCHANGED <<sessionVars, cancelPromotionInFlight, ledgerVars>>

\* approveTx.wait() has resolved: promoNonce = baseNonce + 1, and
\* createPromotion is sent with it.
PromoApproveMined(t) ==
    /\ tasks[t].pc = "approveWait"
    /\ tasks[t].currentNonce < ledgerLatest
    /\ Apply([Machine EXCEPT !.tasks[t].pc = "createPromotion",
                             !.tasks[t].currentNonce = @ + 1,
                             !.tasks[t].answer = ""])
    /\ UNCHANGED <<sessionVars, flagVars, ledgerVars>>

\* contract.createPromotion / contract.subscribe has settled: accepted, the
\* cached nonce is set to the nonce used plus one and success is returned.
NonceAfterSend(n) == n + 1

\* An executor that awaits tx.wait() before it returns the success.
ExecSentWhenMined(t) ==
    /\ tasks[t].pc \in {"createPromotion", "subscribe"}
    /\ tasks[t].answer # ""
    /\ LET answer == tasks[t].answer
       IN IF answer = "accepted"
          THEN /\ tasks[t].currentNonce < ledgerLatest
               /\ Apply(TaskReturn(
                     [Machine EXCEPT !.nonce = NonceAfterSend(tasks[t].currentNonce)],
                     t, TRUE, ""))
               /\ FlagAfterReturn(t)
          ELSE IF StartsResync(answer)
          THEN /\ Apply([Machine EXCEPT !.tasks[t].pc = "resync", !.tasks[t].n = Null])
               /\ UNCHANGED <<createPromotionInFlight, engageInPromotionInFlight>>
          ELSE /\ Apply(TaskReturn(Machine, t, FALSE, answer))
               /\ FlagAfterReturn(t)
    /\ UNCHANGED <<sessionVars, cancelPromotionInFlight, ledgerVars>>

ExecSent(t) ==
    /\ tasks[t].pc \in {"createPromotion", "subscribe"}
    /\ tasks[t].answer # ""
    /\ LET answer == tasks[t].answer
       IN IF answer = "accepted"
          THEN /\ Apply(TaskReturn(
                     [Machine EXCEPT !.nonce = NonceAfterSend(tasks[t].currentNonce)],
                     t, TRUE, ""))
               /\ FlagAfterReturn(t)
          ELSE IF StartsResync(answer)
          THEN /\ Apply([Machine EXCEPT !.tasks[t].pc = "resync", !.tasks[t].n = Null])
               /\ UNCHANGED <<createPromotionInFlight, engageInPromotionInFlight>>
          ELSE /\ Apply(TaskReturn(Machine, t, FALSE, answer))
               /\ FlagAfterReturn(t)
    /\ UNCHANGED <<sessionVars, cancelPromotionInFlight, ledgerVars>>

\* ---- CANCEL_PROMOTION after its awaits
\* contract.cancelPromotion has settled: accepted, the receipt is awaited;
\* otherwise the error is answered and the finally block clears the flag.
CancelSent(t) ==
    /\ tasks[t].pc = "cancelPromotion"
    /\ tasks[t].answer # ""
    /\ IF tasks[t].answer = "accepted"
       THEN /\ Apply([Machine EXCEPT !.tasks[t].pc = "cancelWait"])
            /\ UNCHANGED cancelPromotionInFlight
       ELSE /\ Apply(TaskReturn(Machine, t, FALSE, tasks[t].answer))
            /\ cancelPromotionInFlight' = FALSE
    /\ UNCHANGED <<sessionVars, createPromotionInFlight, engageInPromotionInFlight, ledgerVars>>

\* tx.wait() has resolved: success is answered and the flag cleared.
CancelMined(t) ==
    /\ tasks[t].pc = "cancelWait"
    /\ tasks[t].currentNonce < ledgerLatest
    /\ Apply(TaskReturn(Machine, t, TRUE, ""))
    /\ cancelPromotionInFlight' = FALSE
    /\ UNCHANGED <<sessionVars, createPromotionInFlight, engageInPromotionInFlight, ledgerVars>>

\* ------------------------------------------------------------------ messages
CanEnqueue == Len(walletActions) < MaxActions
NextId == Len(walletActions) + 1

\* A new invocation of executeTipShowerBatch, run up to its first await.
StartBatch(m, origin, ctx, count) ==
    LET t == FreeSlot(m.tasks)
        flow == IF origin = "QUEUE_TIP_SHOWER_CTX" THEN m.tip[ctx].queueId ELSE 0
        amountPerTip == IF origin = "QUEUE_TIP_SHOWER_CTX" THEN m.tip[ctx].amount ELSE 0
        e == executeTipShowerBatch(
                 [m EXCEPT !.tasks[t] =
                      [NewTask("batch", origin, 0, ctx, count)
                          EXCEPT !.flow = flow, !.amount = amountPerTip]], t)
    IN IF e.returned THEN TaskReturn(e.m, t, FALSE, e.error) ELSE e.m

\* The amounts a SEND_TIP message may name (message.amount, a decimal string).
Amounts == (0 - 1)..1

\* case "SEND_TIP": the amount goes into the descriptor of the action and is
\* read again by executeSendTip; the handler does not look at it.
SEND_TIP(sender, amount) ==
    /\ IF ~isTrustedSender(sender)
       THEN Apply(Respond(Machine, "SEND_TIP", FALSE, "Unauthorized sender"))
       ELSE /\ CanEnqueue
            /\ HasFree(tasks)
            /\ LET t == FreeSlot(tasks)
               IN Apply(enqueue(
                      [Machine EXCEPT !.tasks[t] = NewTask("tip", "SEND_TIP", NextId,
                                                           NoContext, 1)],
                      "SEND_TIP", NoContext, t))
    /\ UNCHANGED <<sessionVars, flagVars, ledgerVars>>

\* case "TIP_SHOWER_BATCH"
TIP_SHOWER_BATCH(sender, count, validAmount) ==
    /\ IF count = 0
       THEN Apply(Respond(Machine, "TIP_SHOWER_BATCH", FALSE, "No recipients provided."))
       ELSE IF ~validAmount
       THEN Apply(Respond(Machine, "TIP_SHOWER_BATCH", FALSE, "Invalid tip amount."))
       ELSE /\ CanEnqueue
            /\ HasFree(tasks)
            /\ LET t == FreeSlot(tasks)
               IN Apply(enqueue(
                      [Machine EXCEPT !.tasks[t] = NewTask("batch", "TIP_SHOWER_BATCH", NextId,
                                                           NoContext, count)],
                      "TIP_SHOWER_BATCH", NoContext, t))
    /\ UNCHANGED <<sessionVars, flagVars, ledgerVars>>

\* The amounts per tip a tip-shower request may name (payload.amountPerTip,
\* past the check that it is positive); a task that took no amount from a
\* context holds 0.
TipShowerAmounts == {1}

\* A REQUEST_TIP_SHOWER_APPROVAL that does not look for a live context.
RequestOverLiveContext(sender, contextId, valid) ==
    /\ IF contextId = NoContext
       THEN Apply(Respond(Machine, "REQUEST_TIP_SHOWER_APPROVAL", FALSE,
                          "Missing tip shower context."))
       ELSE IF ~valid
       THEN Apply(Respond(Machine, "REQUEST_TIP_SHOWER_APPROVAL", FALSE,
                          "Invalid post count."))
       ELSE /\ CanEnqueue
            /\ \E count \in 1..MaxContextRecipients, amountPerTip \in TipShowerAmounts :
                 LET m == enqueue(Machine, "REQUEST_TIP_SHOWER_APPROVAL", contextId, 0)
                 IN Apply(Respond(
                        [m EXCEPT !.q[NextId].count = count,
                                  !.q[NextId].amount = amountPerTip,
                                  !.tip[contextId] =
                                      [present |-> TRUE, approved |-> FALSE,
                                       queueId |-> NextId, amount |-> amountPerTip]],
                        "REQUEST_TIP_SHOWER_APPROVAL", TRUE, ""))
    /\ UNCHANGED <<sessionVars, flagVars, ledgerVars>>

\* case "REQUEST_TIP_SHOWER_APPROVAL"
REQUEST_TIP_SHOWER_APPROVAL(sender, contextId, valid) ==
    /\ IF contextId = NoContext
       THEN Apply(Respond(Machine, "REQUEST_TIP_SHOWER_APPROVAL", FALSE,
                          "Missing tip shower context."))
       ELSE IF pendingTipShowerApprovals[contextId].present
       THEN Apply(Respond(Machine, "REQUEST_TIP_SHOWER_APPROVAL", FALSE,
                          "A tip shower approval is already pending."))
       ELSE IF ~valid
       THEN Apply(Respond(Machine, "REQUEST_TIP_SHOWER_APPROVAL", FALSE,
                          "Invalid post count."))
       ELSE /\ CanEnqueue
            /\ \E count \in 1..MaxContextRecipients, amountPerTip \in TipShowerAmounts :
                 LET m == enqueue(Machine, "REQUEST_TIP_SHOWER_APPROVAL", contextId, 0)
                 IN Apply(Respond(
                        [m EXCEPT !.q[NextId].count = count,
                                  !.q[NextId].amount = amountPerTip,
                                  !.tip[contextId] =
                                      [present |-> TRUE, approved |-> FALSE,
                                       queueId |-> NextId, amount |-> amountPerTip]],
                        "REQUEST_TIP_SHOWER_APPROVAL", TRUE, ""))
    /\ UNCHANGED <<sessionVars, flagVars, ledgerVars>>

\* case "CANCEL_TIP_SHOWER_APPROVAL"
CANCEL_TIP_SHOWER_APPROVAL(contextId) ==
    /\ IF contextId = NoContext
       THEN Apply(Respond(Machine, "CANCEL_TIP_SHOWER_APPROVAL", FALSE,
                          "Missing tip shower context."))
       ELSE IF ~pendingTipShowerApprovals[contextId].present
       THEN Apply(Respond(Machine, "CANCEL_TIP_SHOWER_APPROVAL", FALSE,
                          "No pending approval to cancel."))
       ELSE LET pending == pendingTipShowerApprovals[contextId]
                m == IF ~pending.approved /\ pending.queueId # 0
                     THEN cancelById(Machine, pending.queueId)
                     ELSE Machine
            IN Apply(Respond([m EXCEPT !.tip[contextId] = NoEntry],
                             "CANCEL_TIP_SHOWER_APPROVAL", TRUE, ""))
    /\ UNCHANGED <<sessionVars, flagVars, ledgerVars>>

\* The promotion amounts a message may name: promoPayload.amount passes the
\* check against the minimum; NoAmount is a payload without the field.
MinPromoAmount == 100
PromoAmounts == {MinPromoAmount, MinPromoAmount + 1}
NoAmount == 0

\* case "REQUEST_CREATE_PROMOTION_APPROVAL": the valid request records its
\* parameters, the amount among them, in the context.
REQUEST_CREATE_PROMOTION_APPROVAL(sender, contextId, valid) ==
    /\ IF contextId = NoContext
       THEN Apply(Respond(Machine, "REQUEST_CREATE_PROMOTION_APPROVAL", FALSE,
                          "Missing promotion context."))
       ELSE IF pendingCreatePromotionApprovals[contextId].present
       THEN Apply(Respond(Machine, "REQUEST_CREATE_PROMOTION_APPROVAL", FALSE,
                          "A promotion approval is already pending."))
       ELSE IF ~valid
       THEN Apply(Respond(Machine, "REQUEST_CREATE_PROMOTION_APPROVAL", FALSE,
                          "Invalid slots count."))
       ELSE /\ CanEnqueue
            /\ \E amount \in PromoAmounts :
                 LET m == enqueue(Machine, "REQUEST_CREATE_PROMOTION_APPROVAL", contextId, 0)
                 IN Apply(Respond(
                        [m EXCEPT !.promo[contextId] =
                             [present |-> TRUE, approved |-> FALSE, queueId |-> NextId,
                              amount |-> amount]],
                        "REQUEST_CREATE_PROMOTION_APPROVAL", TRUE, ""))
    /\ UNCHANGED <<sessionVars, flagVars, ledgerVars>>

\* case "CANCEL_CREATE_PROMOTION_APPROVAL"
CANCEL_CREATE_PROMOTION_APPROVAL(contextId) ==
    /\ IF contextId = NoContext
       THEN Apply(Respond(Machine, "CANCEL_CREATE_PROMOTION_APPROVAL", FALSE,
                          "Missing promotion context."))
       ELSE IF ~pendingCreatePromotionApprovals[contextId].present
       THEN Apply(Respond(Machine, "CANCEL_CREATE_PROMOTION_APPROVAL", FALSE,
                          "No pending promotion approval to cancel."))
       ELSE LET pending == pendingCreatePromotionApprovals[contextId]
                m == IF ~pending.approved /\ pending.queueId # 0
                     THEN cancelById(Machine, pending.queueId)
                     ELSE Machine
            IN Apply(Respond([m EXCEPT !.promo[contextId] = NoEntry],
                             "CANCEL_CREATE_PROMOTION_APPROVAL", TRUE, ""))
    /\ UNCHANGED <<sessionVars, flagVars, ledgerVars>>

\* case "QUEUE_TIP_SHOWER"
QUEUE_TIP_SHOWER(sender, useExistingApprovalContext, contextId, count) ==
    /\ IF useExistingApprovalContext
       THEN IF contextId = NoContext \/ ~pendingTipShowerApprovals[contextId].present
            THEN Apply(Respond(Machine, "QUEUE_TIP_SHOWER", FALSE,
                               "No pending wallet approval found."))
            ELSE IF ~pendingTipShowerApprovals[contextId].approved
            THEN Apply(Respond(Machine, "QUEUE_TIP_SHOWER", FALSE,
                               "Wallet approval is still pending."))
            ELSE IF count = 0
            THEN Apply(Respond([Machine EXCEPT !.tip[contextId] = NoEntry],
                               "QUEUE_TIP_SHOWER", FALSE, "No recipients provided."))
            ELSE /\ HasFree(tasks)
                 /\ Apply(StartBatch(Machine, "QUEUE_TIP_SHOWER_CTX", contextId, count))
       ELSE IF count = 0
            THEN Apply(Respond(Machine, "QUEUE_TIP_SHOWER", FALSE, "No recipients provided."))
            ELSE /\ HasFree(tasks)
                 /\ Apply(StartBatch(Machine, "QUEUE_TIP_SHOWER", NoContext, count))
    /\ UNCHANGED <<sessionVars, flagVars, ledgerVars>>

\* executeCreatePromotion up to its first await: the guards, the flag, the
\* checks of the payload.  A return after the flag was set clears it again.
executeCreatePromotion(m, origin, ctx, flow, validPayload, amount) ==
    IF ExecGuard # "ok"
    THEN [m |-> Respond(m, origin, FALSE, ExecGuard), flag |-> createPromotionInFlight]
    ELSE IF createPromotionInFlight
    THEN [m |-> Respond(m, origin, FALSE, "Another promotion is in progress. Please wait."),
          flag |-> createPromotionInFlight]
    ELSE IF ~validPayload
    THEN [m |-> Respond(m, origin, FALSE, "Missing postId."), flag |-> FALSE]
    ELSE LET t == FreeSlot(m.tasks)
         IN [m |-> [m EXCEPT !.tasks[t] =
                        [NewTask("promo", origin, 0, ctx, 0)
                            EXCEPT !.pc = "validate", !.flow = flow, !.amount = amount]],
             flag |-> TRUE]

\* { ...the fields recorded in the context, ...createPromoPayload }: a field
\* of the message replaces the recorded one.
approvedPayload(pendingPromo, amount) ==
    IF amount = NoAmount THEN pendingPromo.amount ELSE amount

\* case "CREATE_PROMOTION": with a context that is present and approved the
\* executor is called with approvedPayload, otherwise with the message's
\* payload, which is valid only if it names an amount.
CREATE_PROMOTION(sender, contextId, validPayload) ==
    /\ HasFree(tasks)
    /\ LET pendingPromo == IF contextId = NoContext THEN NoEntry
                           ELSE pendingCreatePromotionApprovals[contextId]
       IN IF pendingPromo.present /\ ~pendingPromo.approved
          THEN /\ Apply(Respond(Machine, "CREATE_PROMOTION", FALSE,
                                "Wallet approval is still pending."))
               /\ UNCHANGED <<createPromotionInFlight, engageInPromotionInFlight>>
          ELSE \E amount \in PromoAmounts \cup {NoAmount} :
               LET e == IF pendingPromo.present
                        THEN executeCreatePromotion(
                                 [Machine EXCEPT !.promo[contextId] = NoEntry],
                                 "CREATE_PROMOTION_CTX", contextId, pendingPromo.queueId,
                                 validPayload, approvedPayload(pendingPromo, amount))
                        ELSE executeCreatePromotion(
                                 Machine, "CREATE_PROMOTION", contextId, 0,
                                 validPayload /\ amount # NoAmount, amount)
               IN /\ Apply(e.m)
                  /\ createPromotionInFlight' = e.flag
                  /\ UNCHANGED engageInPromotionInFlight
    /\ UNCHANGED <<sessionVars, cancelPromotionInFlight, ledgerVars>>

\* case "SUBSCRIBE_TO_TOKEN": executeSubscribeToToken up to its first await.
SUBSCRIBE_TO_TOKEN(sender, validPayload) ==
    /\ HasFree(tasks)
    /\ IF ExecGuard # "ok"
       THEN Apply(Respond(Machine, "SUBSCRIBE_TO_TOKEN", FALSE, ExecGuard))
       ELSE IF ~validPayload
       THEN Apply(Respond(Machine, "SUBSCRIBE_TO_TOKEN", FALSE, "Invalid token address."))
       ELSE LET t == FreeSlot(tasks)
            IN Apply([Machine EXCEPT !.tasks[t] =
                   [NewTask("sub", "SUBSCRIBE_TO_TOKEN", 0, NoContext, 0)
                       EXCEPT !.pc = "validate"]])
    /\ UNCHANGED <<sessionVars, flagVars, ledgerVars>>

\* case "CANCEL_PROMOTION": up to the await of contract.cancelPromotion.  Every
\* return inside the try runs the finally block, which clears the flag.
CANCEL_PROMOTION(sender, validId) ==
    /\ HasFree(tasks)
    /\ IF cancelPromotionInFlight
       THEN /\ Apply(Respond(Machine, "CANCEL_PROMOTION", FALSE,
                             "Another cancellation is already in progress."))
            /\ cancelPromotionInFlight' = FALSE
       ELSE IF ~isUnlocked \/ inMemoryWallet = NoWallet
       THEN /\ Apply(Respond(Machine, "CANCEL_PROMOTION", FALSE, "Wallet is locked."))
            /\ cancelPromotionInFlight' = FALSE
       ELSE IF ~validId
       THEN /\ Apply(Respond(Machine, "CANCEL_PROMOTION", FALSE, "Invalid promotion id."))
            /\ cancelPromotionInFlight' = FALSE
       ELSE /\ LET t == FreeSlot(tasks)
               IN Apply([Machine EXCEPT !.tasks[t] =
                      [NewTask("cancel", "CANCEL_PROMOTION", 0, NoContext, 0)
                          EXCEPT !.pc = "cancelPromotion"]])
            /\ cancelPromotionInFlight' = TRUE
    /\ UNCHANGED <<sessionVars, createPromotionInFlight, engageInPromotionInFlight, ledgerVars>>

\* A handler that sets engageInPromotionInFlight without looking at it.
engageOverAnother(m, twitterUser, validPayload) ==
    IF ~isUnlocked \/ inMemoryWallet = NoWallet
    THEN [m |-> Respond(m, "ENGAGE_IN_PROMOTION", FALSE, "Wallet is locked."),
          flag |-> engageInPromotionInFlight]
    ELSE IF ~twitterUser
    THEN [m |-> Respond(m, "ENGAGE_IN_PROMOTION", FALSE, "User not logged in."),
          flag |-> engageInPromotionInFlight]
    ELSE IF ~validPayload
    THEN [m |-> Respond(m, "ENGAGE_IN_PROMOTION", FALSE, "Engagement failed"),
          flag |-> FALSE]
    ELSE LET t == FreeSlot(m.tasks)
         IN [m |-> [m EXCEPT !.tasks[t] =
                        [NewTask("engage", "ENGAGE_IN_PROMOTION", 0, NoContext, 0)
                            EXCEPT !.pc = "engage"]],
             flag |-> TRUE]

\* The ENGAGE_IN_PROMOTION handler up to its first await
\* (getPromotionDetails): the three guards, which return before the try
\* block, then engageInPromotionInFlight = true and the synchronous part of
\* the try block, where a payload that cannot be read throws into the catch
\* and finally blocks.  twitterUser: is a session user set.
engage(m, twitterUser, validPayload) ==
    IF ~isUnlocked \/ inMemoryWallet = NoWallet
    THEN [m |-> Respond(m, "ENGAGE_IN_PROMOTION", FALSE, "Wallet is locked."),
          flag |-> engageInPromotionInFlight]
    ELSE IF ~twitterUser
    THEN [m |-> Respond(m, "ENGAGE_IN_PROMOTION", FALSE, "User not logged in."),
          flag |-> engageInPromotionInFlight]
    ELSE IF engageInPromotionInFlight
    THEN [m |-> Respond(m, "ENGAGE_IN_PROMOTION", FALSE, "Another engagement is in progress."),
          flag |-> engageInPromotionInFlight]
    ELSE IF ~validPayload
    THEN [m |-> Respond(m, "ENGAGE_IN_PROMOTION", FALSE, "Engagement failed"),
          flag |-> FALSE]
    ELSE LET t == FreeSlot(m.tasks)
         IN [m |-> [m EXCEPT !.tasks[t] =
                        [NewTask("engage", "ENGAGE_IN_PROMOTION", 0, NoContext, 0)
                            EXCEPT !.pc = "engage"]],
             flag |-> TRUE]

\* case "ENGAGE_IN_PROMOTION"
ENGAGE_IN_PROMOTION(twitterUser, validPayload) ==
    /\ HasFree(tasks)
    /\ LET e == engage(Machine, twitterUser, validPayload)
       IN /\ Apply(e.m)
          /\ engageInPromotionInFlight' = e.flag
    /\ UNCHANGED <<sessionVars, createPromotionInFlight, cancelPromotionInFlight, ledgerVars>>

\* The awaits of the handler's try block have settled (getPromotionDetails,
\* getNetwork, the fetches, the backend call): the backend accepted and
\* success is answered; or the follower check, a read or the backend failed
\* and the failure is answered.  After a failure that reads as a nonce error
\* the catch block goes on to re-sync the nonce; every other path runs the
\* finally block at once.
EngageOutcomes == {"ok", "Insufficient followers", "Backend API error", "nonce too low"}
EngageSettled(t) ==
    /\ tasks[t].pc = "engage"
    /\ \E outcome \in EngageOutcomes :
         IF outcome = "ok"
         THEN /\ Apply(TaskReturn(Machine, t, TRUE, ""))
              /\ engageInPromotionInFlight' = FALSE
         ELSE IF outcome = "nonce too low" /\ inMemoryWallet # NoWallet
         THEN /\ Apply([Respond(Machine, "ENGAGE_IN_PROMOTION", FALSE, outcome)
                           EXCEPT !.tasks[t].pc = "resync",
                                  !.tasks[t].n = Null,
                                  !.tasks[t].answer = outcome])
              /\ UNCHANGED engageInPromotionInFlight
         ELSE /\ Apply(TaskReturn(Machine, t, FALSE, outcome))
              /\ engageInPromotionInFlight' = FALSE
    /\ UNCHANGED <<sessionVars, createPromotionInFlight, cancelPromotionInFlight, ledgerVars>>

\* case "RESPOND_WALLET_ACTION"
RESPOND_WALLET_ACTION(id, approved) ==
    /\ Apply(respond(Machine, id, approved))
    /\ UNCHANGED <<sessionVars, flagVars, ledgerVars>>

\* ------------------------------------------------------------------ specification
Next ==
    \/ \E password \in Passwords : UNLOCK_WALLET(password)
    \/ UnlockSettled
    \/ UnlockNonceRead
    \/ UnlockNonceWrite
    \/ LOCK_WALLET
    \/ GET_APP_STATE
    \/ CHECK_WALLET_STATUS
    \/ GET_WALLET_ACTION_QUEUE
    \/ Mine
    \/ External
    \/ \E t \in TaskIds : LedgerReceive(t)
    \/ \E t \in TaskIds : TipValidated(t)
    \/ \E t \in TaskIds : TipTransferred(t)
    \/ \E t \in TaskIds : ResyncRead(t)
    \/ \E t \in TaskIds : ResyncWrite(t)
    \/ \E t \in TaskIds : ExecValidated(t)
    \/ \E t \in TaskIds : GetNoncePendingDone(t)
    \/ \E t \in TaskIds : PromoApproveSent(t)
    \/ \E t \in TaskIds : PromoApproveMined(t)
    \/ \E t \in TaskIds : ExecSent(t)
    \/ \E t \in TaskIds : CancelSent(t)
    \/ \E t \in TaskIds : CancelMined(t)
    \/ \E sender \in Senders, amount \in Amounts : SEND_TIP(sender, amount)
    \/ \E sender \in Senders, count \in 0..MaxRecipients, validAmount \in BOOLEAN :
          TIP_SHOWER_BATCH(sender, count, validAmount)
    \/ \E sender \in Senders, c \in ContextIds \cup {NoContext}, valid \in BOOLEAN :
          REQUEST_TIP_SHOWER_APPROVAL(sender, c, valid)
    \/ \E c \in ContextIds \cup {NoContext} : CANCEL_TIP_SHOWER_APPROVAL(c)
    \/ \E sender \in Senders, c \in ContextIds \cup {NoContext}, valid \in BOOLEAN :
          REQUEST_CREATE_PROMOTION_APPROVAL(sender, c, valid)
    \/ \E c \in ContextIds \cup {NoContext} : CANCEL_CREATE_PROMOTION_APPROVAL(c)
    \/ \E sender \in Senders, useExisting \in BOOLEAN, c \in ContextIds \cup {NoContext},
          count \in 0..MaxRecipients : QUEUE_TIP_SHOWER(sender, useExisting, c, count)
    \/ \E sender \in Senders, c \in ContextIds \cup {NoContext}, valid \in BOOLEAN :
          CREATE_PROMOTION(sender, c, valid)
    \/ \E sender \in Senders, valid \in BOOLEAN : SUBSCRIBE_TO_TOKEN(sender, valid)
    \/ \E sender \in Senders, valid \in BOOLEAN : CANCEL_PROMOTION(sender, valid)
    \/ \E id \in 1..MaxActions, approved \in BOOLEAN : RESPOND_WALLET_ACTION(id, approved)
    \/ \E twitterUser \in BOOLEAN, valid \in BOOLEAN : ENGAGE_IN_PROMOTION(twitterUser, valid)
    \/ \E t \in TaskIds : EngageSettled(t)
    \* the extension's pages
    \/ NextWelcome
    \/ NextHook

Spec == Init /\ [][Next]_vars

\* ---- the executors, started by the messages that run them directly
\* One session: the unlock, the ledger, every executor's continuations, and
\* the handlers that call an executor without the queue.
NextExec ==
    \/ \E password \in Passwords : UNLOCK_WALLET(password)
    \/ UnlockSettled
    \/ UnlockNonceRead
    \/ UnlockNonceWrite
    \/ Mine
    \/ External
    \/ \E t \in TaskIds : LedgerReceive(t)
    \/ \E t \in TaskIds : TipValidated(t)
    \/ \E t \in TaskIds : TipTransferred(t)
    \/ \E t \in TaskIds : ResyncRead(t)
    \/ \E t \in TaskIds : ResyncWrite(t)
    \/ \E t \in TaskIds : ExecValidated(t)
    \/ \E t \in TaskIds : GetNoncePendingDone(t)
    \/ \E t \in TaskIds : PromoApproveSent(t)
    \/ \E t \in TaskIds : PromoApproveMined(t)
    \/ \E t \in TaskIds : ExecSent(t)
    \/ \E t \in TaskIds : CancelSent(t)
    \/ \E t \in TaskIds : CancelMined(t)
    \/ \E sender \in Senders, count \in 0..MaxRecipients :
          QUEUE_TIP_SHOWER(sender, FALSE, NoContext, count)
    \/ \E sender \in Senders, c \in ContextIds \cup {NoContext}, valid \in BOOLEAN :
          CREATE_PROMOTION(sender, c, valid)
    \/ \E sender \in Senders, valid \in BOOLEAN : SUBSCRIBE_TO_TOKEN(sender, valid)
    \/ \E sender \in Senders, valid \in BOOLEAN : CANCEL_PROMOTION(sender, valid)

SpecExec == Init /\ [][NextExec]_vars

\* ---- the action queue and the approval contexts
\* The state a successful UNLOCK_WALLET leaves behind on a fresh account.
InitSession ==
    /\ isUnlocked = TRUE
    /\ inMemoryWallet = WalletInfo
    /\ nonce = 0
    /\ createPromotionInFlight = FALSE
    /\ cancelPromotionInFlight = FALSE
    /\ engageInPromotionInFlight = FALSE
    /\ walletActions = <<>>
    /\ pendingTipShowerApprovals = [c \in ContextIds |-> NoEntry]
    /\ pendingCreatePromotionApprovals = [c \in ContextIds |-> NoEntry]
    /\ tasks = [t \in TaskIds |-> FreeTask]
    /\ unlock = NoUnlock
    /\ unlocks = MaxUnlocks
    /\ sessionStore = TRUE
    /\ walletData = SavedWallet
    /\ ledgerLatest = 0
    /\ pool = {}
    /\ broadcasts = {}
    /\ reply = NoReply
    /\ progress = <<>>
    /\ welcome = NoWelcome
    /\ useWallet = NoHook

\* The messages that enqueue, answer and cancel actions and use approval
\* contexts, LOCK_WALLET, after which an executor returns from its guard at
\* once, and the tip executors the queue runs.  Only SEND_TIP reads its sender;
\* the other handlers are driven by a sender that is not trusted.
NextQueue ==
    \/ LOCK_WALLET
    \/ \E t \in TaskIds : LedgerReceive(t)
    \/ \E t \in TaskIds : TipValidated(t)
    \/ \E t \in TaskIds : TipTransferred(t)
    \/ \E sender \in Senders, amount \in Amounts : SEND_TIP(sender, amount)
    \/ \E count \in 1..MaxRecipients : TIP_SHOWER_BATCH(Stranger, count, TRUE)
    \/ \E c \in ContextIds : REQUEST_TIP_SHOWER_APPROVAL(Stranger, c, TRUE)
    \/ \E c \in ContextIds : CANCEL_TIP_SHOWER_APPROVAL(c)
    \/ \E c \in ContextIds : REQUEST_CREATE_PROMOTION_APPROVAL(Stranger, c, TRUE)
    \/ \E c \in ContextIds : CANCEL_CREATE_PROMOTION_APPROVAL(c)
    \/ \E c \in ContextIds, count \in 0..MaxRecipients :
          QUEUE_TIP_SHOWER(Stranger, TRUE, c, count)
    \/ \E id \in 1..MaxActions, approved \in BOOLEAN : RESPOND_WALLET_ACTION(id, approved)

SpecQueue == InitSession /\ [][NextQueue]_vars

\* ------------------------------------------------------------------ properties
\* ---- the nonce of a broadcast
Quiescent == \A t \in TaskIds : ~Running(t)
AllAccepted == \A b \in broadcasts : b.answer = "accepted"
\* Every transaction the ledger holds for the account was sent by the script.
NoForeign == ledgerLatest + Cardinality(pool) = Cardinality(broadcasts)
ExecutorTxs == {"transfer", "approve", "createPromotion", "subscribe"}
BroadcastNonces == { b.nonce : b \in broadcasts }

\* C1: in a session in which the ledger accepted every broadcast of
\* executeSendTip, executeCreatePromotion and executeSubscribeToToken and holds
\* no other transaction of the account, once the executors have returned no
\* two broadcasts carry the same nonce and the nonces used are consecutive
\* from the session's first nonce: none is skipped.
C1_NoncesDistinctAndConsecutive ==
    (/\ Quiescent
     /\ AllAccepted
     /\ NoForeign
     /\ \A b \in broadcasts : b.tx \in ExecutorTxs)
    => /\ \A b1, b2 \in broadcasts : b1 # b2 => b1.nonce # b2.nonce
       /\ BroadcastNonces = 0..(Cardinality(broadcasts) - 1)

\* A step in which invocation u reads and increments the cached nonce.
Reserves(u) ==
    /\ tasks'[u].pc = "validate"
    /\ tasks'[u].kind \in TipKinds
    /\ tasks[u].pc # "validate"
    /\ tasks'[u].currentNonce = nonce
    /\ nonce' = nonce + 1

\* A step that falls between the start of invocation t's re-sync read and the
\* write of its result into the cached nonce.
DuringResync(t) == tasks[t].pc = "resync" /\ tasks'[t].pc = "resync"

\* C2: re-sync and reserve never interleave: no step between the start of a
\* re-sync's ledger read and the write of its result reads and increments the
\* cached nonce.
C2_ResyncExcludesReserve ==
    [][\A t, u \in TaskIds : DuringResync(t) => ~Reserves(u)]_vars

\* C3: every transaction the script broadcasts carries a nonce taken by
\* read-and-increment of the cached nonce; none carries one read from the
\* ledger by the executor or chosen by the ledger client.
C3_NonceFromCachedCounter == \A b \in broadcasts : b.source = "cached"

\* ---- who may move funds
FundMovingCommand(sender) ==
    \/ \E amount \in Amounts : SEND_TIP(sender, amount)
    \/ \E count \in 0..MaxRecipients, validAmount \in BOOLEAN :
          TIP_SHOWER_BATCH(sender, count, validAmount)
    \/ \E useExisting \in BOOLEAN, c \in ContextIds \cup {NoContext},
          count \in 0..MaxRecipients : QUEUE_TIP_SHOWER(sender, useExisting, c, count)
    \/ \E c \in ContextIds \cup {NoContext}, valid \in BOOLEAN :
          CREATE_PROMOTION(sender, c, valid)
    \/ \E valid \in BOOLEAN : SUBSCRIBE_TO_TOKEN(sender, valid)
    \/ \E valid \in BOOLEAN : CANCEL_PROMOTION(sender, valid)

RejectedUnauthorized ==
    /\ reply'.type # "none"
    /\ ~reply'.success
    /\ reply'.error = "Unauthorized sender"
    /\ walletActions' = walletActions
    /\ tasks' = tasks

\* C4: a fund-moving command (SEND_TIP, TIP_SHOWER_BATCH, QUEUE_TIP_SHOWER,
\* CREATE_PROMOTION, SUBSCRIBE_TO_TOKEN, CANCEL_PROMOTION) from a sender that is
\* not trusted is answered with the unauthorized-sender error, enqueues no
\* action and starts no executor.
C4_UntrustedSenderRejected ==
    [][\A sender \in Senders :
          (~isTrustedSender(sender) /\ FundMovingCommand(sender)) => RejectedUnauthorized]_vars

\* ---- approval before execution
CtxOrigins == {"QUEUE_TIP_SHOWER_CTX", "CREATE_PROMOTION_CTX"}
ApprovedAction(id) ==
    /\ id \in 1..Len(walletActions)
    /\ walletActions[id].status \in {"approved", "completed", "failed"}

\* C5: every broadcast of a tip, promotion-creation or subscription
\* transaction was sent by the executor of a queued action the user approved,
\* or under an approval context the user approved.
C5_BroadcastAfterApproval ==
    \A b \in broadcasts :
        b.tx \in ExecutorTxs => (ApprovedAction(b.action) \/ b.origin \in CtxOrigins)

LiveApproved(map, c) == c # NoContext /\ map[c].present /\ map[c].approved
RejectedNothingStarted == reply'.type # "none" /\ ~reply'.success /\ tasks' = tasks

\* C6: an execution request that names a contextId whose context is missing
\* or not approved is rejected, and starts no executor.
C6_ContextRequestNeedsLiveApproval ==
    [][\A c \in ContextIds :
          /\ ((\E sender \in Senders, valid \in BOOLEAN : CREATE_PROMOTION(sender, c, valid))
                 /\ ~LiveApproved(pendingCreatePromotionApprovals, c))
              => RejectedNothingStarted
          /\ ((\E sender \in Senders, count \in 0..MaxRecipients :
                   QUEUE_TIP_SHOWER(sender, TRUE, c, count))
                 /\ ~LiveApproved(pendingTipShowerApprovals, c))
              => RejectedNothingStarted]_vars

SubmittingKinds == {"tip", "batch", "promo", "sub"}
InFlight == { t \in TaskIds : Running(t) /\ tasks[t].kind \in SubmittingKinds }

\* C7: at most one transaction-submitting execution (tip, tip shower batch,
\* promotion creation, subscription) is in flight at any moment.
C7_OneExecutionInFlight == Cardinality(InFlight) <= 1

\* ---- the order of execution in the queue
Started(q, i) == i \in 1..Len(q) /\ q[i].executorCalls > 0
ExecutingAt(q, i) == Started(q, i) /\ q[i].status = "approved"

StartsIn(j) == Started(walletActions', j) /\ ~Started(walletActions, j)

Terminal == {"completed", "failed", "denied", "cancelled"}
\* The moves of an action in one step; an executor without an await returns
\* in the step that calls it, so approval and result may be one step.
Moves ==
    { <<"pending", "approved">>, <<"pending", "denied">>, <<"pending", "cancelled">>,
      <<"approved", "completed">>, <<"approved", "failed">>,
      <<"pending", "completed">>, <<"pending", "failed">> }

WellFormed(a) ==
    /\ a.executorCalls \in {0, 1}
    /\ a.status \in {"pending", "denied", "cancelled"} => a.executorCalls = 0
    /\ a.status \in {"completed", "failed"} => a.executorCalls = 1
    /\ a.resultCalls = IF a.status \in Terminal THEN 1 ELSE 0

LifecycleStep ==
    /\ Len(walletActions') >= Len(walletActions)
    /\ \A i \in 1..Len(walletActions') : WellFormed(walletActions'[i])
    /\ \A i \in 1..Len(walletActions) :
         LET a == walletActions[i]
             b == walletActions'[i]
         IN /\ a.status # b.status => <<a.status, b.status>> \in Moves
            /\ a.status \in Terminal => b = a
            /\ b.executorCalls >= a.executorCalls
            /\ b.resultCalls >= a.resultCalls
    /\ \A i \in (Len(walletActions) + 1)..Len(walletActions') :
         walletActions'[i].status = "pending"

\* A RESPOND_WALLET_ACTION for an action that has been answered before.
RepeatedRespond ==
    \E id \in 1..Len(walletActions), approved \in BOOLEAN :
        /\ walletActions[id].status # "pending"
        /\ RESPOND_WALLET_ACTION(id, approved)

\* C9: an action moves only pending -> approved -> completed or failed,
\* pending -> denied or pending -> cancelled; a terminal action never changes;
\* its executor is called at most once, only once approved, never when denied
\* or cancelled; its result callback is called exactly once, on reaching a
\* terminal state; a repeated RESPOND_WALLET_ACTION changes nothing.
C9_ActionLifecycle ==
    [][/\ LifecycleStep
       /\ RepeatedRespond =>
              /\ ~reply'.success
              /\ UNCHANGED <<walletActions, tasks, nonce, pendingTipShowerApprovals,
                             pendingCreatePromotionApprovals, broadcasts>>]_vars

\* An action has run and reported its result, another was denied, and a
\* second answer for one of them has been refused.
C9_Witness ==
    /\ \E i \in 1..Len(walletActions) :
           /\ walletActions[i].status = "completed"
           /\ walletActions[i].executorCalls = 1
           /\ walletActions[i].resultCalls = 1
    /\ \E i \in 1..Len(walletActions) :
           /\ walletActions[i].status = "denied"
           /\ walletActions[i].resultCalls = 1
    /\ reply = Reply("RESPOND_WALLET_ACTION", FALSE, "Action not found.")

\* ---- cancelling an approval request
CancelOutcome(map, mapAfter, c) ==
    IF map[c].approved
    THEN /\ reply'.type # "none"
         /\ ~reply'.success
         /\ mapAfter[c] = map[c]
    ELSE /\ reply'.success
         /\ ~mapAfter[c].present
         /\ walletActions'[map[c].queueId].status = "cancelled"
         /\ walletActions'[map[c].queueId].executorCalls = 0

\* C10: a cancellation for a context already approved is answered with an
\* error and the context stays; for a context still pending it succeeds, the
\* context is removed, its queued action is cancelled and the action's
\* executor is not called.
C10_CancelAfterApprovalRejected ==
    [][\A c \in ContextIds :
          /\ (CANCEL_TIP_SHOWER_APPROVAL(c) /\ pendingTipShowerApprovals[c].present)
                => CancelOutcome(pendingTipShowerApprovals, pendingTipShowerApprovals', c)
          /\ (CANCEL_CREATE_PROMOTION_APPROVAL(c)
                  /\ pendingCreatePromotionApprovals[c].present)
                => CancelOutcome(pendingCreatePromotionApprovals,
                                 pendingCreatePromotionApprovals', c)]_vars

\* ---- the session and what callers see of it
\* Unlocking, locking and the messages that report the session, with the
\* account's transactions sent from elsewhere.
NextSession ==
    \/ \E password \in Passwords : UNLOCK_WALLET(password)
    \/ UnlockSettled
    \/ UnlockNonceRead
    \/ UnlockNonceWrite
    \/ LOCK_WALLET
    \/ GET_APP_STATE
    \/ CHECK_WALLET_STATUS
    \/ GET_WALLET_ACTION_QUEUE
    \/ External

SpecSession == Init /\ [][NextSession]_vars

\* C11: no response carries the private key: of the wallet a response shows
\* at most the address.
C11_NoKeyInResponses == DOMAIN reply.wallet \subseteq {"address"}

\* C12: the step that answers LOCK_WALLET leaves isUnlocked false, the cached
\* wallet null, the cached nonce null and the session mirror removed; a
\* LOCK_WALLET handled right after another changes nothing.
C12_LockClearsAndIsIdempotent ==
    [][reply'.type = "LOCK_WALLET" =>
          /\ isUnlocked' = FALSE
          /\ inMemoryWallet' = NoWallet
          /\ nonce' = Null
          /\ sessionStore' = FALSE
          /\ reply'.success
          /\ reply.type = "LOCK_WALLET" => UNCHANGED vars]_vars

\* LOCK_WALLET has been handled in a live session: the unlock had cached the
\* wallet and its nonce read is still on its way.
C12_Witness ==
    /\ reply.type = "LOCK_WALLET"
    /\ unlock.pc = "getNonce"
    /\ ~isUnlocked
    /\ inMemoryWallet = NoWallet
    /\ nonce = Null
    /\ ~sessionStore

\* A step in which a nonce-conflict handler writes the ledger's nonce into
\* the cached nonce.
ResyncWrites == \E t \in TaskIds : tasks[t].pc = "resync" /\ tasks[t].n # Null
                                   /\ tasks'[t].pc # "resync"

\* C13: while a session is live the cached nonce is never negative and, but
\* for the write of a re-sync, never decreases from one state to the next.
C13_NonceNeverDecreases ==
    [][/\ nonce' # Null => nonce' >= 0
       /\ (nonce # Null /\ nonce' # Null /\ ~ResyncWrites) => nonce' >= nonce]_vars

\* ---- the nonce read of an unlock
\* C14: after an unlock no transaction is broadcast before the ledger nonce
\* read started by that unlock has completed and its result has been cached:
\* every step in which a transaction reaches the ledger starts in a state
\* whose cached nonce is set.
C14_NoBroadcastBeforeNonceCached ==
    [][broadcasts' # broadcasts => nonce # Null]_vars

\* ---- nonce conflicts
\* Invocation t returns the failure of a broadcast the ledger refused with a
\* nonce error.
ReturnsNonceFailure(t) ==
    /\ tasks[t].pc \in TxPcs \cup {"resync"}
    /\ isNonceError(tasks[t].answer)
    /\ tasks'[t].pc = "done"

\* C15: whenever a broadcast fails with a nonce error, in the step that
\* returns the failure the cached nonce is the nonce the ledger gave to the
\* re-sync read, so that the next reservation returns that value.
C15_NonceErrorResyncs ==
    [][\A t \in TaskIds :
          ReturnsNonceFailure(t) => tasks[t].n # Null /\ nonce' = tasks[t].n]_vars

\* The broadcasts of invocation t that the ledger refused.  A refused broadcast
\* ends the invocation, a batch included, unless it is sent again.
RefusedOf(t) == { b \in broadcasts : b.task = t /\ b.answer # "accepted" }

\* C16: a submission whose first broadcast failed with a nonce error is
\* broadcast once more after the re-sync and fails only if that second attempt
\* fails too: when the failure of a nonce error is returned two broadcasts of
\* the submission have been refused, and never more than two.
C16_NonceErrorRetriedOnce ==
    [][\A t \in TaskIds :
          /\ Cardinality(RefusedOf(t)) <= 2
          /\ ReturnsNonceFailure(t) => Cardinality(RefusedOf(t)) = 2]_vars

\* ---- validation and reservation
\* C17: validation precedes the reservation of a nonce, so a tip that the
\* validation rejects reserves none and every reserved nonce is used by
\* exactly one broadcast: in a session of tips on a fresh account in which the
\* ledger accepted every broadcast and holds no other transaction, once the
\* executors have returned the nonces reserved, those below the cached nonce,
\* are the nonces broadcast, each once.
C17_ReservedNonceIsBroadcast ==
    (/\ Quiescent
     /\ AllAccepted
     /\ NoForeign
     /\ nonce # Null
     /\ \A b \in broadcasts : b.tx = "transfer")
    => /\ BroadcastNonces = 0..(nonce - 1)
       /\ Cardinality(broadcasts) = nonce

\* ---- the amount of a tip
\* C18: a SEND_TIP whose amount is not positive is answered with a failure
\* and nothing else happens: no action is enqueued, no
\* executor invocation is created and the cached nonce is not touched.
C18_NonPositiveTipRejected ==
    [][\A sender \in Senders, amount \in Amounts :
          (isTrustedSender(sender) /\ amount <= 0 /\ SEND_TIP(sender, amount))
             => /\ reply'.type = "SEND_TIP"
                /\ ~reply'.success
                /\ UNCHANGED <<walletActions, tasks, nonce>>]_vars

\* ---- responses and confirmations
\* The continuation of invocation t after the await it is suspended at.
Continues(t) ==
    \/ TipTransferred(t)
    \/ PromoApproveSent(t)
    \/ PromoApproveMined(t)
    \/ ExecSent(t)

\* Invocation t of a submission is suspended and the ledger has accepted the
\* transaction it sent last.
AcceptedPending(t) ==
    /\ tasks[t].kind \in SubmittingKinds
    /\ tasks[t].pc \in TxPcs \cup {"approveWait"}
    /\ tasks[t].answer = "accepted"

\* The transaction a submission sends last.
LastTxPcs == {"transfer", "createPromotion", "subscribe"}

\* Invocation t returns success to the caller of its executor.
RespondsSuccess(t) ==
    /\ Continues(t)
    /\ \/ tasks'[t].pc = "done" /\ reply' = Reply(tasks[t].origin, TRUE, "")
       \/ tasks[t].kind = "batch" /\ tasks[t].left > 1 /\ tasks'[t].pc = "validate"

UnlockSettles == unlock.pc = "decrypt" /\ unlock'.pc # "decrypt"

\* The password given is not the stored record's, or the record is corrupted.
CannotDecrypt ==
    /\ walletData.present
    /\ \/ unlock.password # walletData.encryptedPrivateKey.password
       \/ ~walletData.encryptedPrivateKey.intact

\* C20: unlockAndInitializeWallet fails with the no-wallet error exactly when
\* no walletData record is stored; with a record and a wrong password or a
\* corrupted record it fails with 'Invalid password.' in both cases, and no key
\* material is returned, cached or mirrored.
C20_UnlockFailures ==
    [][UnlockSettles =>
         /\ reply'.error = "No wallet found in storage." <=> ~walletData.present
         /\ CannotDecrypt =>
               /\ reply' = Reply("UNLOCK_WALLET", FALSE, "Invalid password.")
               /\ UNCHANGED <<isUnlocked, inMemoryWallet, sessionStore>>]_vars

\* A corrupted record has been answered with 'Invalid password.'.
C20_Witness ==
    /\ walletData.present
    /\ ~walletData.encryptedPrivateKey.intact
    /\ reply = Reply("UNLOCK_WALLET", FALSE, "Invalid password.")
    /\ inMemoryWallet = NoWallet

\* C21: an UNLOCK_WALLET answered with success: false leaves the session
\* mirror and the in-memory session as they were: when the first attempt of a
\* run is answered with a failure, the script is still locked, with no cached
\* wallet, no cached nonce and no session mirror, as before the attempt.
C21_FailedUnlockChangesNothing ==
    (unlocks = 1 /\ reply.type = "UNLOCK_WALLET" /\ ~reply.success)
    => /\ ~isUnlocked
       /\ inMemoryWallet = NoWallet
       /\ nonce = Null
       /\ ~sessionStore

\* ---- approval contexts
\* The actions of the queue that wait for an answer to the approval request of
\* the given kind for context c.
PendingRequests(kind, c) ==
    { i \in 1..Len(walletActions) : /\ walletActions[i].kind = kind
                                    /\ walletActions[i].ctx = c
                                    /\ walletActions[i].status = "pending" }

NextContext ==
    \/ Mine
    \/ \E t \in TaskIds : LedgerReceive(t)
    \/ \E t \in TaskIds : TipValidated(t)
    \/ \E t \in TaskIds : TipTransferred(t)
    \/ \E t \in TaskIds : ResyncRead(t)
    \/ \E t \in TaskIds : ResyncWrite(t)
    \/ \E t \in TaskIds : ExecValidated(t)
    \/ \E t \in TaskIds : GetNoncePendingDone(t)
    \/ \E t \in TaskIds : PromoApproveSent(t)
    \/ \E t \in TaskIds : PromoApproveMined(t)
    \/ \E t \in TaskIds : ExecSent(t)
    \/ \E c \in ContextIds : REQUEST_TIP_SHOWER_APPROVAL(Stranger, c, TRUE)
    \/ \E c \in ContextIds : CANCEL_TIP_SHOWER_APPROVAL(c)
    \/ \E c \in ContextIds : REQUEST_CREATE_PROMOTION_APPROVAL(Stranger, c, TRUE)
    \/ \E c \in ContextIds : CANCEL_CREATE_PROMOTION_APPROVAL(c)
    \/ \E c \in ContextIds, count \in 0..MaxContextRecipients :
          QUEUE_TIP_SHOWER(Stranger, TRUE, c, count)
    \/ \E c \in ContextIds, valid \in BOOLEAN : CREATE_PROMOTION(Stranger, c, valid)
    \/ \E id \in 1..MaxActions, approved \in BOOLEAN : RESPOND_WALLET_ACTION(id, approved)

SpecContext == InitSession /\ [][NextContext]_vars

\* The context of the flow with queue id a is still in the map.
Remains(map, c, a) == map[c].present /\ map[c].queueId = a

\* The executor invocation t that runs under context c returns.
FlowReturns(t, origin, c) ==
    /\ tasks[t].origin = origin
    /\ tasks[t].ctx = c
    /\ tasks'[t].pc = "done"

\* The approval request a for context c is denied or cancelled, or fails.
RequestEnds(a, kind, c) ==
    /\ a \in 1..Len(walletActions)
    /\ walletActions[a].kind = kind
    /\ walletActions[a].ctx = c
    /\ walletActions[a].status \in {"pending", "approved"}
    /\ walletActions'[a].status \in {"denied", "cancelled", "failed"}

C24_FeeHeadroom ==
    [][\A t \in TaskIds :
          (\E b \in broadcasts' \ broadcasts : b.task = t /\ b.tx = "subscribe")
             => ~tasks[t].feeShort]_vars

\* ---- the stored wallet, saved at setup with any key and password
\* The records chrome.storage.local may hold: none, a wallet saved by
\* encryptWallet, or a saved wallet whose payload was damaged.
VaultRecords ==
    LET saved == { encryptWallet(WalletOf(k), p) : k \in PrivateKeys, p \in Passwords }
    IN {NoRecord} \cup saved
       \cup { [w EXCEPT !.encryptedPrivateKey.intact = FALSE] : w \in saved }

InitVault ==
    /\ isUnlocked = FALSE
    /\ inMemoryWallet = NoWallet
    /\ nonce = Null
    /\ createPromotionInFlight = FALSE
    /\ cancelPromotionInFlight = FALSE
    /\ engageInPromotionInFlight = FALSE
    /\ walletActions = <<>>
    /\ pendingTipShowerApprovals = [c \in ContextIds |-> NoEntry]
    /\ pendingCreatePromotionApprovals = [c \in ContextIds |-> NoEntry]
    /\ tasks = [t \in TaskIds |-> FreeTask]
    /\ unlock = NoUnlock
    /\ unlocks = 0
    /\ sessionStore = FALSE
    /\ walletData \in VaultRecords
    /\ ledgerLatest = 0
    /\ pool = {}
    /\ broadcasts = {}
    /\ reply = NoReply
    /\ progress = <<>>
    /\ welcome = NoWelcome
    /\ useWallet = NoHook

SpecVault == InitVault /\ [][NextSession]_vars

ReservesNow(t) ==
    /\ tasks'[t].kind \in TipKinds
    /\ tasks'[t].pc = "validate"
    /\ tasks[t].pc # "validate"

\* Only executeSendTip calls run, none of them is in its catch block, and no
\* unlock is writing the nonce.
OnlyTipsNoConflict ==
    /\ unlock.pc = "idle"
    /\ \A t \in TaskIds : Running(t) => /\ tasks[t].kind \in TipKinds
                                        /\ tasks[t].pc # "resync"

\* C26: executeSendTip calls started concurrently while the cached nonce is n
\* obtain n, n+1, ... in start order, each once, and after N of them the
\* cached nonce is n+N, as long as no nonce conflict occurs and no other kind
\* of executor runs: every call that passes its guards takes the cached nonce
\* as it is at that moment and leaves it one higher, one call at a time, and
\* nothing else moves the cached nonce in between.
C26_ConcurrentTipsConsecutive ==
    [][OnlyTipsNoConflict
         => /\ \A t \in TaskIds :
                  ReservesNow(t)
                  => /\ tasks'[t].currentNonce = nonce
                     /\ nonce' = nonce + 1
                     /\ \A u \in TaskIds \ {t} :
                           /\ ~ReservesNow(u)
                           /\ Running(u) /\ tasks[u].pc \in {"validate", "transfer"}
                                 /\ tasks[u].currentNonce < nonce
                              => tasks'[u].currentNonce < tasks'[t].currentNonce
            /\ (\A t \in TaskIds : ~ReservesNow(t)) => nonce' = nonce]_vars

\* Two calls are suspended at once, the one started first holding n and the
\* other n+1, and the cached nonce is n+2.
C26_Witness ==
    /\ OnlyTipsNoConflict
    /\ \A t \in TaskIds : Running(t) /\ tasks[t].pc \in {"validate", "transfer"}
    /\ tasks[2].currentNonce = tasks[1].currentNonce + 1
    /\ nonce = tasks[1].currentNonce + 2

\* ---- C27
\* The CANCEL_PROMOTION handlers between cancelPromotionInFlight = true and
\* their completion.
CancelsInFlight == {t \in TaskIds : tasks[t].kind = "cancel" /\ Running(t)}

\* C27: at most one CANCEL_PROMOTION transaction is in flight: while one
\* handler is between setting cancelPromotionInFlight and its completion,
\* every other CANCEL_PROMOTION request, however many arrive and whatever
\* their outcome, is answered with the in-progress error and starts nothing.
C27_OneCancelInFlight ==
    /\ [](Cardinality(CancelsInFlight) <= 1)
    /\ [][\A sender \in Senders, validId \in BOOLEAN :
             CancelsInFlight # {} /\ CANCEL_PROMOTION(sender, validId)
             => /\ reply'.type = "CANCEL_PROMOTION"
                /\ ~reply'.success
                /\ reply'.error = "Another cancellation is already in progress."
                /\ tasks' = tasks]_vars

\* ---- C28
\* The promotion executor and the engagement handler with the wallet's other
\* direct transactions left out: CREATE_PROMOTION without an approval context,
\* ENGAGE_IN_PROMOTION, their continuations, the ledger, and LOCK_WALLET.
NextFlags ==
    \/ LOCK_WALLET
    \/ Mine
    \/ External
    \/ \E t \in TaskIds : LedgerReceive(t)
    \/ \E t \in TaskIds : ExecValidated(t)
    \/ \E t \in TaskIds : GetNoncePendingDone(t)
    \/ \E t \in TaskIds : PromoApproveSent(t)
    \/ \E t \in TaskIds : PromoApproveMined(t)
    \/ \E t \in TaskIds : ExecSent(t)
    \/ \E t \in TaskIds : ResyncRead(t)
    \/ \E t \in TaskIds : ResyncWrite(t)
    \/ \E valid \in BOOLEAN : CREATE_PROMOTION(Stranger, NoContext, valid)
    \/ \E twitterUser \in BOOLEAN, valid \in BOOLEAN : ENGAGE_IN_PROMOTION(twitterUser, valid)
    \/ \E t \in TaskIds : EngageSettled(t)

SpecFlags == InitSession /\ [][NextFlags]_vars

\* The calls of the given kind that are past their guard and have not finished.
PastGuard(kind) == {t \in TaskIds : tasks[t].kind = kind /\ Running(t)}

BatchesOf(id) ==
    {t \in TaskIds : /\ tasks[t].kind = "batch"
                     /\ tasks[t].origin = "QUEUE_TIP_SHOWER_CTX"
                     /\ tasks[t].flow = id}

\* C29: an approved tip-shower context authorises at most one batch, a second
\* QUEUE_TIP_SHOWER that arrives while the first batch is running included.
C29_OneBatchPerApproval ==
    \A id \in 1..MaxActions : Cardinality(BatchesOf(id)) <= 1

\* ---- C30
\* executeCreatePromotion is called in this step, as invocation t, under the
\* approved context c.
CreatesUnderContext(t, c) ==
    /\ tasks[t].pc = "free"
    /\ tasks'[t].kind = "promo"
    /\ tasks'[t].origin = "CREATE_PROMOTION_CTX"
    /\ tasks'[t].ctx = c

\* C30: a promotion created under an approved context uses exactly the
\* parameters recorded at approval: whatever fields the CREATE_PROMOTION
\* message carries, the amount the executor is called with is the amount the
\* context recorded.
C30_ApprovedParametersUsed ==
    [][\A t \in TaskIds, c \in ContextIds :
          CreatesUnderContext(t, c)
          => tasks'[t].amount = pendingCreatePromotionApprovals[c].amount]_vars

\* ---- C31
\* The tips the ledger accepted from invocation t.
TipsSentBy(t) ==
    {b \in broadcasts : b.task = t /\ b.tx = "transfer" /\ b.answer = "accepted"}

\* C31: the number of tips sent under an approved tip-shower context never
\* exceeds the post count the approval request showed to the user, and every
\* such tip uses the amount per tip recorded at approval (the token is
\* recorded and passed on in the same way).
C31_TipsWithinApprovedCount ==
    \A t \in TaskIds :
        tasks[t].kind = "batch" /\ tasks[t].origin = "QUEUE_TIP_SHOWER_CTX"
        => /\ Cardinality(TipsSentBy(t)) <= walletActions[tasks[t].flow].count
           /\ tasks[t].amount = walletActions[tasks[t].flow].amount

\* ---- C32
\* The context of c in the map is marked approved in this step by the executor
\* of the queued action whose id it stores.
ApprovedByOwnAction(map, mapAfter, c) ==
    /\ map[c].present
    /\ mapAfter[c].queueId = map[c].queueId
    /\ walletActions'[map[c].queueId].executorCalls
          > walletActions[map[c].queueId].executorCalls

\* The context of c in the map is removed in this step by an event of the
\* request that created it: its action is denied, cancelled or fails; a cancel
\* message naming it is answered with success; an execution started under it
\* returns; or a message naming it hands it to an execution, is turned away
\* by the executor's guards, or finds no recipients.
RemovedByOwnEvent(map, c, origin, cancel) ==
    LET id == map[c].queueId
    IN \/ /\ walletActions[id].status \in {"pending", "approved"}
          /\ walletActions'[id].status \in {"denied", "cancelled", "failed"}
       \/ reply' = Reply(cancel, TRUE, "")
       \/ \E t \in TaskIds : /\ Running(t)
                             /\ tasks[t].origin = origin
                             /\ tasks[t].flow = id
                             /\ tasks'[t].pc = "done"
       \/ \E t \in TaskIds : tasks[t].pc = "free" /\ tasks'[t].pc # "free"
       \/ /\ reply'.type = origin
          /\ \A t \in TaskIds : Running(t) => tasks'[t].pc # "done"
       \/ reply' = Reply("QUEUE_TIP_SHOWER", FALSE, "No recipients provided.")

\* C32: a context is approved or deleted only by events of the request that
\* created it: it becomes approved only when the queued action whose id it
\* stores is approved and run, and it is removed only by that action's denial,
\* by a cancel naming it, or by an execution under it, never by the executor,
\* result callback or batch completion of an earlier context that used the
\* same contextId.
C32_OnlyOwnEvents ==
    [][\A c \in ContextIds :
          /\ (~pendingTipShowerApprovals[c].approved /\ pendingTipShowerApprovals'[c].approved)
                => ApprovedByOwnAction(pendingTipShowerApprovals,
                                       pendingTipShowerApprovals', c)
          /\ (~pendingCreatePromotionApprovals[c].approved
                /\ pendingCreatePromotionApprovals'[c].approved)
                => ApprovedByOwnAction(pendingCreatePromotionApprovals,
                                       pendingCreatePromotionApprovals', c)
          /\ (pendingTipShowerApprovals[c].present /\ ~pendingTipShowerApprovals'[c].present)
                => RemovedByOwnEvent(pendingTipShowerApprovals, c,
                                     "QUEUE_TIP_SHOWER_CTX", "CANCEL_TIP_SHOWER_APPROVAL")
          /\ (pendingCreatePromotionApprovals[c].present
                /\ ~pendingCreatePromotionApprovals'[c].present)
                => RemovedByOwnEvent(pendingCreatePromotionApprovals, c,
                                     "CREATE_PROMOTION_CTX",
                                     "CANCEL_CREATE_PROMOTION_APPROVAL")]_vars

\* ---- C33
\* LOCK_WALLET was the last message handled, and an UNLOCK_WALLET received
\* before it is still in progress.
LockedDuringUnlock == reply.type = "LOCK_WALLET" /\ unlock.pc # "idle"

\* C33: once LOCK_WALLET has been handled the wallet stays locked until an
\* UNLOCK_WALLET received after the lock succeeds: the continuation of an
\* unlock that was in progress when the lock arrived leaves isUnlocked false,
\* the cached wallet null and the session mirror without the wallet.
C33_LockOutlivesPendingUnlock ==
    [][LockedDuringUnlock
         => /\ ~isUnlocked'
            /\ inMemoryWallet' = NoWallet
            /\ ~sessionStore']_vars

\* ---- C34
\* Invocation t signs a transaction and sends it in this step.
Sends(t) == tasks'[t].pc \in TxPcs /\ tasks'[t].pc # tasks[t].pc

\* C34: no transaction is signed or broadcast while the wallet is locked: an
\* executor that started before LOCK_WALLET and is suspended at a network call
\* sends nothing once the lock has been handled.
C34_NothingSentWhileLocked ==
    [][\A t \in TaskIds : Sends(t) => isUnlocked /\ inMemoryWallet # NoWallet]_vars

\* ---- C35
\* C35: in every reachable state in which the wallet is locked the cached
\* nonce is null and the cached wallet is null; a nonce initialisation or an
\* executor that finishes after LOCK_WALLET does not write the cached nonce.
C35_LockedMeansCleared ==
    ~isUnlocked => nonce = Null /\ inMemoryWallet = NoWallet

\* ---- C36
\* The promotion creation started under context c, invocation t, returns a
\* failure in this step without having sent a transaction.
FailsBeforeBroadcast(t, c) ==
    /\ FlowReturns(t, "CREATE_PROMOTION_CTX", c)
    /\ reply'.type = "CREATE_PROMOTION_CTX" /\ ~reply'.success
    /\ ~\E b \in broadcasts' : b.task = t

\* C36: if a CREATE_PROMOTION issued under an approved context is rejected
\* before any transaction is broadcast (another promotion in flight, wallet
\* locked, nonce not initialised, or a validation failure), the approved
\* context is still present afterwards.
C36_RejectedKeepsContext ==
    [][\A c \in ContextIds :
          /\ \A valid \in BOOLEAN :
                (/\ pendingCreatePromotionApprovals[c].approved
                 /\ CREATE_PROMOTION(Stranger, c, valid)
                 /\ reply'.type = "CREATE_PROMOTION_CTX" /\ ~reply'.success)
                   => pendingCreatePromotionApprovals'[c]
                         = pendingCreatePromotionApprovals[c]
          /\ \A t \in TaskIds :
                FailsBeforeBroadcast(t, c)
                   => Remains(pendingCreatePromotionApprovals', c, tasks[t].flow)]_vars

\* ---- C37
\* The progress messages this step sends about batch t, in the order sent.
ProgressOf(t) == SelectSeq(progress', LAMBDA p : p.task = t)

\* Batch t goes on to its next recipient in this step.
NextRecipient(t) ==
    /\ tasks[t].kind = "batch" /\ tasks[t].pc = "transfer"
    /\ tasks'[t].pc = "validate"

\* Batch t returns in this step.
BatchReturns(t) == tasks[t].kind = "batch" /\ Running(t) /\ tasks'[t].pc = "done"

\* The tip batch t was waiting for has succeeded.
TipSucceeded(t) == tasks[t].pc = "transfer" /\ tasks[t].answer = "accepted"

\* C37: executeTipShowerBatch sends the tips one at a time in list order, each
\* with a nonce greater than the previous one; when the tip for the k-th
\* recipient is the first to fail no later tip is attempted, the batch returns
\* and its last progress message has status failed with processed = k-1; when
\* all succeed the last progress message has status completed with
\* processed = n; processed never exceeds the number of successful tips.
C37_BatchInOrderWithProgress ==
    [][\A t \in TaskIds :
          /\ NextRecipient(t)
                => /\ TipSucceeded(t)
                   /\ tasks'[t].left = tasks[t].left - 1
                   /\ tasks'[t].currentNonce > tasks[t].currentNonce
          /\ BatchReturns(t)
                => /\ ProgressOf(t) # <<>>
                   /\ LET last == ProgressOf(t)[Len(ProgressOf(t))]
                      IN IF TipSucceeded(t)
                         THEN /\ tasks[t].left = 1
                              /\ last.status = "completed"
                              /\ last.processed = tasks[t].total
                         ELSE /\ last.status = "failed"
                              /\ last.processed = tasks[t].total - tasks[t].left
          /\ \A i \in 1..Len(ProgressOf(t)) :
                ProgressOf(t)[i].processed <= Cardinality(TipsSentBy(t))]_vars

\* ---- the setup page
\* The setup page, opened with or without a wallet in storage.
SpecWelcome == Init /\ [][NextWelcome]_vars

\* C38: in the create-wallet flow nothing is written to durable storage until
\* every requested recovery-phrase word has been entered correctly, whatever
\* Back, tab-switch and Create actions came before; the record written holds
\* the key of the wallet whose phrase was revealed last, encrypted under a
\* password that is non-empty, equals its confirmation and has the minimum
\* length.
C38_SavedOnlyAfterVerification ==
    [][walletData' # walletData /\ welcome.tab = "create"
       => /\ welcome.createStep = "verify"
          /\ Cardinality(welcome.verifyIndices) > 0
          /\ \A idx \in welcome.verifyIndices :
                 trimToLowerCase(welcome.verifyInputs[idx])
                     = MnemonicWords(welcome.wallet)[idx]
          /\ welcome.revealed = welcome.wallet
          /\ walletData'.present
          /\ walletData'.encryptedPrivateKey.privateKey = welcome.revealed
          /\ walletData'.address = AddressOf(welcome.revealed)
          /\ LET p == walletData'.encryptedPrivateKey.password
             IN /\ p # ""
                /\ p = welcome.confirmPassword
                /\ passwordLength(p) >= MinPasswordLength]_vars

\* ---- the useWallet hook
SpecHook == Init /\ [][NextHook]_vars

\* C39: for a token that is not the native one, transferTokens reads the
\* balance of, and calls transfer on, the contract at the address configured
\* for the token symbol it was given, for every supported symbol; for an
\* unsupported symbol it sends nothing.
C39_TransferOnConfiguredContract ==
    \A call \in useWallet.calls :
        /\ call.tokenSymbol \in DOMAIN TOKENS_MAP
        /\ ~TOKENS_MAP[call.tokenSymbol].isNative
           => call.contract = TOKENS_MAP[call.tokenSymbol].address

====
